---------------------------- MODULE Spec2Model ----------------------------
(***************************************************************************)
(* A model of the govscrape pipeline:                                      *)
(*   - the Collection Controller (scripts/scraper.ts: run, fetchListings,  *)
(*     processOpportunity, saveBatch) with Batch Persistence,              *)
(*   - the intake run (processIntake and its four transformers),           *)
(*   - the helper deduplicateBy.                                           *)
(*                                                                         *)
(* Time is counted in whole hours since 00:00 UTC of day 0.  A calendar    *)
(* day d starts at 24*d UTC.  The process time zone is tz hours east of    *)
(* UTC (local = UTC + tz); daylight saving is not modelled.                *)
(***************************************************************************)
EXTENDS Integers, Sequences, FiniteSets, TLC

(***************************************************************************)
(* Bounds of the model.                                                    *)
(***************************************************************************)
\* config.batchSize: the page size asked of the listing source
PageSize == 2
\* config.maxPages
MaxPages == 3
\* calendar days 0..MaxDay appear in listing rows
MaxDay == 3

\* batch items read by one intake run
MaxItems == 2
\* items handed to deduplicateBy
MaxLen == 3
\* times one opportunity is transformed
MaxRuns == 2
\* documents found on one detail page
MaxDocs == 2
\* listings visited one after the other
MaxVisits == 2
\* batch files of one session directory that may be unreadable or unparseable
MaxFiles == 3
\* the batch files a session directory holds at most
MaxBatchNum == 10
\* selectors handed to extractFromMultipleSelectors
MaxSelectors == 2
\* labels handed to extractLabeledValue
MaxLabels == 2
\* cells extractTable returns for the page
MaxCells == 1
\* tabs found on one page
MaxTabs == 2
\* statuses normalized one after the other
MaxStatuses == 2
\* the words of a table header or of a label
MaxWords == 2
\* the calendar days a --date-range value of the model can name
MaxCliDay == 2
\* the dates in a --date-range value of the model
MaxParts == 2
\* the command-line arguments of the model
MaxArgs == 2
\* the largest maxRetries given to retry
MaxRetries == 3
\* the largest initialDelay given to retry, in units of 100 ms
MaxInitialDelay == 2

\* JavaScript null / undefined
Null == "<null>"
\* a JavaScript value that is truthy and not a string (the number 42)
NotAString == "<42>"
IsString(v) == v \notin {Null, NotAString}
\* `${v}` in a template literal
TemplateStr(v) == IF v = Null THEN "null" ELSE IF v = NotAString THEN "42" ELSE v

\* hours per day
HoursPerDay == 24

\* Offsets of the process time zone, in hours east of UTC: America/Chicago
\* (standard time), UTC, Asia/Shanghai.
TZOffsets == {0 - 6, 0, 8}

Days == 0..MaxDay

(***************************************************************************)
(* A row of the listing table as fetchListings reads it.                   *)
(*   fmt  - what the date cell holds:                                      *)
(*          "us"   MM/DD/YYYY (or zero-padded ISO), which passes           *)
(*                 datePattern and which parseFlexibleDate reads as        *)
(*                 midnight UTC of that day;                               *)
(*          "text" "Jan 5, 2024", which passes datePattern and falls       *)
(*                 through to new Date(text): midnight LOCAL time;         *)
(*          "bad"  passes datePattern but no parser accepts it             *)
(*                 ("13/45/2024");                                         *)
(*          "none" no cell matches datePattern (openDateStr stays null);   *)
(*   day  - the calendar day the cell names (meaningful for us/text);      *)
(*   link - "url" an href was found, "none" no href, "invalid" an href     *)
(*          that new URL(link, baseUrl) rejects (throws);                  *)
(*   hasId- the first cell or data-id gives an id (otherwise the id is     *)
(*          the generated `listing-<page>-<i>`).                           *)
(***************************************************************************)
DateFormats == {"us", "text", "bad", "none"}
LinkKinds == {"url", "none", "invalid"}
Rows == {r \in [fmt : DateFormats, day : Days, link : LinkKinds, hasId : BOOLEAN] :
            /\ r.fmt \in {"bad", "none"} => r.day = 0
            /\ r.link # "none" => r.hasId}
NoRow == [fmt |-> "none", day |-> 0, link |-> "none", hasId |-> FALSE]

VARIABLES
    \* ---- scraper: configuration and environment
    tz,              \* process time zone offset
    dateFrom,        \* config.dateRange.from, as a day (midnight UTC)
    dateTo,          \* config.dateRange.to, as a day (midnight UTC)
    \* ---- scraper: run()
    pc,              \* position in run()
    hasMorePages,
    currentPage,
    batchNum,
    \* ---- scraper: fetchListings
    served,          \* rows the source returned for the page
    nRows,           \* listingElements.length (after the header filter)
    i,               \* rows of the page examined so far (the loop index)
    cur,             \* the row examined by the last loop iteration
    listings,        \* result.listings
    shouldStopPagination,
    \* ---- scraper: per page processing
    k,               \* listings processed so far
    batchItems,
    \* ---- observations
    fetchCount,      \* calls of fetchListings so far
    written,         \* batch files written, in order (their batch numbers)
    failed,          \* listings of the page logged "Failed to process opportunity"
    undelayed,       \* kinds of page navigation since the last this.delay()
    \* ---- the source, when it lists its items in descending date order
    lastDay,         \* the day of the last dated row it served (MaxDay before
                     \* the first); stays MaxDay for a source in any order
    \* ---- the clock (new Date(), Date.now())
    clock,
    \* ---- intake: processIntake
    ipc,             \* position in processIntake
    source,          \* batches[0]?.metadata?.source || 'unknown'
    nItems,          \* items of the batches read
    done,            \* items handled so far
    contracts,
    agencies,
    documents,
    people,
    output,          \* the assembled aggregate
    intakeFiles,     \* intake output files written
    \* ---- deduplicateBy applied to an input
    dedupInput,
    dedupOutput,
    dedupDone,
    \* ---- one opportunity transformed repeatedly
    tOpp,
    tSource,
    tRuns,           \* the results, one per transformation
    \* ---- one call of processOpportunity
    vpc,             \* position in processOpportunity
    vDocuments,      \* documents (the downloadUrl of each)
    vNext,           \* documents the download loop has handled
    vAttempts,       \* calls of fetch(url), in order: document and result
    vItem,           \* the BatchItem returned (<<>> while there is none)
    vOpen,           \* detail pages open in the browser
    vOutcomes,       \* how the visits of the earlier listings ended, in order
    \* ---- one call of readBatchFiles
    rpc,             \* position in readBatchFiles
    rListing,        \* what fs.readdir returns for the session directory
    rFiles,          \* batchFiles: the batch_*.json files, filtered and sorted
    rIdx,            \* files the loop has handled
    rBatches,        \* batches: the files parsed and pushed
    rWarned,         \* files reported by console.warn
    \* ---- one call of extractFromMultipleSelectors
    sSelectors,      \* the selectors, each with what the page holds for it
    sResult,         \* the value returned
    sDone,
    \* ---- one call of extractLabeledValue
    lLabels,         \* the labels
    lPage,           \* what the page holds
    lResult,         \* the value returned
    lDone,
    \* ---- one call of TabDataExtractor.extract
    tabPc,           \* position in extract
    tabs,            \* the tabs findTabs returned
    tabIdx,          \* tabs the loop has handled
    tabData,         \* the mapping built so far
    \* ---- one call of OpportunityExtractor.extract
    oPc,             \* position in extract
    oFound,          \* per field, what the two strategies return on the page
    oRecord,         \* the record returned (<<>> while there is none)
    \* ---- normalizeStatus applied to the statuses of a batch
    nsInput,         \* the status values
    nsOutput,        \* what normalizeStatus returned for them, in order
    \* ---- getDateRange on a command line
    cliPc,           \* position in getDateRange
    argv,            \* process.argv.slice(2)
    envRange,        \* process.env.DATE_RANGE (<<>> when unset)
    envToday,        \* process.env.TODAY === 'true'
    cliToday,        \* the day of new Date()
    cliParsed,       \* what parseArgs returned (<<>> before it)
    cliOut,          \* how getDateRange ended (<<>> before it)
    \* ---- retry(fn, maxRetries, initialDelay)
    retPc,           \* position in retry
    maxRetries,      \* its second argument
    initialDelay,    \* its third argument
    attempt,         \* the loop counter
    delay,           \* the wait before the next retry
    lastError,       \* <<>> for null, else <<the error>>
    fnCalls,         \* the outcome of every call of fn so far, in order
    waits,           \* the timeouts set so far, in order
    retResult,       \* <<>> while pending, else how the promise settled
    \* ---- a table header against a candidate label
    hPc,             \* position: the header is read, then matched
    hHeader,         \* the text of the header cell
    hLabel,          \* the candidate label
    hKey,            \* the key extractTable makes of the header
    hMatch           \* the outcome of the test of line 839

scraperVars == <<tz, dateFrom, dateTo, pc, hasMorePages, currentPage, batchNum,
                 served, nRows, i, cur, listings,
                 shouldStopPagination, k, batchItems, fetchCount, written,
                 failed, undelayed, lastDay>>

intakeVars == <<ipc, source, nItems, done, contracts, agencies, documents,
                people, output, intakeFiles>>

dedupVars == <<dedupInput, dedupOutput, dedupDone>>

transformVars == <<tOpp, tSource, tRuns>>

visitVars == <<vpc, vDocuments, vNext, vAttempts, vItem, vOpen, vOutcomes>>

\* the variables of the units modelled on their own
readVars == <<rpc, rListing, rFiles, rIdx, rBatches, rWarned>>

selectorVars == <<sSelectors, sResult, sDone>>

labelVars == <<lLabels, lPage, lResult, lDone>>

tabVars == <<tabPc, tabs, tabIdx, tabData>>

oppVars == <<oPc, oFound, oRecord>>

statusVars == <<nsInput, nsOutput>>

cliVars == <<cliPc, argv, envRange, envToday, cliToday, cliParsed, cliOut>>

retryVars == <<retPc, maxRetries, initialDelay, attempt, delay, lastError,
               fnCalls, waits, retResult>>

headerVars == <<hPc, hHeader, hLabel, hKey, hMatch>>

utilVars == <<cliVars, retryVars, headerVars>>

unitVars == <<visitVars, readVars, selectorVars, labelVars, tabVars, oppVars,
              statusVars, utilVars>>

pipelineVars == <<scraperVars, clock, intakeVars, dedupVars, transformVars>>

vars == <<pipelineVars, unitVars>>

(***************************************************************************)
(* Dates.                                                                  *)
(***************************************************************************)
\* Date.UTC(year, month, day): cli.ts parseDate
UtcMidnight(d) == HoursPerDay * d

\* Date.prototype.setHours(0, 0, 0, 0): start of the local day holding t
SetHoursStartOfDay(t, zone) == HoursPerDay * ((t + zone) \div HoursPerDay) - zone

\* Date.prototype.setHours(23, 59, 59, 999): last hour of the local day
\* holding t (every other instant of the model is a whole hour)
SetHoursEndOfDay(t, zone) == SetHoursStartOfDay(t, zone) + (HoursPerDay - 1)

\* parseFlexibleDate: [ok, t]; ok = FALSE stands for null
ParseFlexibleDate(row, zone) ==
    CASE row.fmt = "us"   -> [ok |-> TRUE, t |-> UtcMidnight(row.day)]
      [] row.fmt = "text" -> [ok |-> TRUE, t |-> UtcMidnight(row.day) - zone]
      [] OTHER            -> [ok |-> FALSE, t |-> 0]

\* ScanOutcome with a row that has no parseable date treated like a row dated
\* before the window (it sets the stop flag and breaks)
ScanOutcomeUndatedStops(row, from, to, zone) ==
    LET parsed == ParseFlexibleDate(row, zone)
        fromDate == SetHoursStartOfDay(UtcMidnight(from), zone)
        toDate == SetHoursEndOfDay(UtcMidnight(to), zone)
        withinDateRange == parsed.t >= fromDate /\ parsed.t <= toDate
    IN  IF row.fmt = "none" \/ ~parsed.ok THEN "stop"
        ELSE IF parsed.t < fromDate THEN "stop"
        ELSE IF row.link = "invalid" THEN "skip"
        ELSE IF (row.link = "url" \/ row.hasId) /\ withinDateRange THEN "admit"
        ELSE "skip"

\* the outcome of one iteration of the row loop of fetchListings:
\*   "skip"  continue without admitting (no date, unparseable date, a throw
\*           caught by the per-row catch, or the final test failing)
\*   "stop"  set shouldStopPagination and break
\*   "admit" push the listing
ScanOutcome(row, from, to, zone) ==
    LET parsed == ParseFlexibleDate(row, zone)
        fromDate == SetHoursStartOfDay(UtcMidnight(from), zone)
        toDate == SetHoursEndOfDay(UtcMidnight(to), zone)
        withinDateRange == parsed.t >= fromDate /\ parsed.t <= toDate
    IN  IF row.fmt = "none" THEN "skip"
        ELSE IF ~parsed.ok THEN "skip"
        ELSE IF parsed.t < fromDate THEN "stop"
        ELSE IF row.link = "invalid" THEN "skip"
        ELSE IF (row.link = "url" \/ row.hasId) /\ withinDateRange THEN "admit"
        ELSE "skip"

\* the Listing pushed for row number idx (1-based) of page p; fmt and day
\* record the date cell the listing was admitted for
MkListing(row, p, idx) ==
    [pageNumber |-> p, index |-> idx, fmt |-> row.fmt, day |-> row.day]

(***************************************************************************)
(* Initial state: a constructed scraper (BaseScraper field initialisers).  *)
(***************************************************************************)
ScraperInit ==
    /\ tz \in TZOffsets
    \* the window [day 1, dateTo]: day 0 lies before it, MaxDay after it
    /\ dateFrom = 1
    /\ dateTo \in 1..(MaxDay - 1)
    /\ pc = "init"
    /\ hasMorePages = TRUE
    /\ currentPage = 1
    /\ batchNum = 1
    /\ served = 0
    /\ nRows = 0
    /\ i = 0
    /\ cur = NoRow
    /\ listings = <<>>
    /\ shouldStopPagination = FALSE
    /\ k = 0
    /\ batchItems = <<>>
    /\ fetchCount = 0
    /\ written = <<>>
    /\ failed = <<>>
    /\ undelayed = {}
    /\ lastDay = MaxDay

\* the parts of the model a specification does not exercise
ScraperIdle ==
    /\ tz = 0 /\ dateFrom = 1 /\ dateTo = 1
    /\ pc = "off"
    /\ hasMorePages = TRUE /\ currentPage = 1 /\ batchNum = 1
    /\ served = 0 /\ nRows = 0 /\ i = 0 /\ cur = NoRow
    /\ listings = <<>> /\ shouldStopPagination = FALSE
    /\ k = 0 /\ batchItems = <<>>
    /\ fetchCount = 0 /\ written = <<>>
    /\ failed = <<>> /\ undelayed = {}
    /\ lastDay = MaxDay

EmptyOutput == [contracts |-> <<>>, agencies |-> <<>>, documents |-> <<>>,
                people |-> <<>>, source |-> "unknown"]

IntakeIdle ==
    /\ ipc = "off"
    /\ source = "unknown"
    /\ nItems = 0 /\ done = 0
    /\ contracts = <<>> /\ agencies = <<>> /\ documents = <<>> /\ people = <<>>
    /\ output = EmptyOutput
    /\ intakeFiles = <<>>

DedupIdle == dedupInput = <<>> /\ dedupOutput = <<>> /\ dedupDone = FALSE

NoOpportunity == [eventId |-> Null, entity |-> Null, buyerEmail |-> Null,
                  buyerName |-> Null]

TransformIdle == tOpp = NoOpportunity /\ tSource = "unknown" /\ tRuns = <<>>

VisitIdle ==
    /\ vpc = "off" /\ vDocuments = <<>> /\ vNext = 0 /\ vAttempts = <<>>
    /\ vItem = <<>> /\ vOpen = 0 /\ vOutcomes = <<>>

ReadIdle ==
    /\ rpc = "off" /\ rListing = <<>> /\ rFiles = <<>> /\ rIdx = 0
    /\ rBatches = <<>>
    /\ rWarned = <<>>

SelectorsIdle == sSelectors = <<>> /\ sResult = Null /\ sDone = FALSE

NoPage == [cells |-> <<>>, tableThrows |-> FALSE, text |-> <<>>,
           sibling |-> Null, parentText |-> <<>>, following |-> Null,
           fallbackThrows |-> FALSE]

LabelsIdle == lLabels = <<>> /\ lPage = NoPage /\ lResult = Null /\ lDone = FALSE

\* const tabData: TabData = {}
EmptyTabData == [n \in {} |-> Null]

TabsIdle == tabPc = "off" /\ tabs = <<>> /\ tabIdx = 0 /\ tabData = EmptyTabData

StatusIdle == nsInput = <<>> /\ nsOutput = <<>>

NothingFound == [f \in {"title", "description", "openDate", "status"} |->
                    [labeled |-> Null, selected |-> Null]]

OppIdle == oPc = "off" /\ oFound = NothingFound /\ oRecord = <<>>

CliIdle ==
    /\ cliPc = "off" /\ argv = <<>> /\ envRange = <<>> /\ envToday = FALSE
    /\ cliToday = 0 /\ cliParsed = <<>> /\ cliOut = <<>>

RetryIdle ==
    /\ retPc = "off" /\ maxRetries = 0 /\ initialDelay = 0 /\ attempt = 0
    /\ delay = 0 /\ lastError = <<>> /\ fnCalls = <<>> /\ waits = <<>>
    /\ retResult = <<>>

HeaderIdle ==
    /\ hPc = "off" /\ hHeader = <<>> /\ hLabel = <<>> /\ hKey = <<>>
    /\ hMatch = FALSE

UtilIdle == CliIdle /\ RetryIdle /\ HeaderIdle

UnitsIdle ==
    /\ VisitIdle /\ ReadIdle /\ SelectorsIdle /\ LabelsIdle /\ TabsIdle
    /\ OppIdle /\ StatusIdle /\ UtilIdle

Init ==
    /\ ScraperInit /\ clock = 0 /\ IntakeIdle /\ DedupIdle /\ TransformIdle
    /\ UnitsIdle

(***************************************************************************)
(* run(): launchBrowser, createSessionDirectory, newPage.                  *)
(***************************************************************************)
Start ==
    /\ pc = "init"
    /\ \E ok \in BOOLEAN :
          pc' = IF ok THEN "loop" ELSE "failed"
    /\ hasMorePages' = TRUE
    /\ currentPage' = 1
    /\ UNCHANGED <<clock, intakeVars, dedupVars, transformVars, unitVars>>
    /\ UNCHANGED <<tz, dateFrom, dateTo, lastDay, batchNum, served,
                   nRows, i, cur, listings, shouldStopPagination, k,
                   batchItems, fetchCount, written, failed, undelayed>>

\* the while condition of the pagination loop is false
LoopExit ==
    /\ pc = "loop"
    /\ ~(hasMorePages /\ currentPage <= MaxPages)
    /\ pc' = "done"
    /\ UNCHANGED <<clock, intakeVars, dedupVars, transformVars, unitVars>>
    /\ UNCHANGED <<tz, dateFrom, dateTo, lastDay, hasMorePages, currentPage, batchNum,
                   served, nRows, i, cur, listings,
                   shouldStopPagination, k, batchItems, fetchCount, written,
                   failed, undelayed>>

(***************************************************************************)
(* fetchListings, up to the row loop: navigate, find the rows, drop a      *)
(* first row that looks like a header.  header is whether the first row's  *)
(* text contains "Id", "Title", "Description" or "OpenDate".  page.goto is *)
(* followed by this.delay(1000) (lines 148-149).                           *)
(***************************************************************************)
FetchListingsBegin ==
    /\ pc = "loop"
    /\ hasMorePages /\ currentPage <= MaxPages
    /\ \E s \in 0..PageSize, header \in BOOLEAN :
          /\ served' = s
          /\ nRows' = IF header /\ s > 0 THEN s - 1 ELSE s
    /\ fetchCount' = fetchCount + 1
    /\ i' = 0
    /\ cur' = NoRow
    /\ listings' = <<>>
    /\ shouldStopPagination' = FALSE
    /\ pc' = IF nRows' = 0 THEN "fetched" ELSE "scan"
    /\ undelayed' = {}
    /\ UNCHANGED <<clock, intakeVars, dedupVars, transformVars, unitVars>>
    /\ UNCHANGED <<tz, dateFrom, dateTo, lastDay, hasMorePages, currentPage, batchNum,
                   k, batchItems, written, failed>>

\* fetchListings throws before the row loop: the outer catch returns
\* { listings: [], shouldStopPagination: false }.  Either page.goto threw
\* (navigation timeout; the delay after it is not reached) or a later
\* statement did.
FetchListingsError ==
    /\ pc = "loop"
    /\ hasMorePages /\ currentPage <= MaxPages
    /\ fetchCount' = fetchCount + 1
    /\ served' = 0
    /\ nRows' = 0
    /\ i' = 0
    /\ cur' = NoRow
    /\ listings' = <<>>
    /\ shouldStopPagination' = FALSE
    /\ pc' = "fetched"
    /\ \E gotoThrew \in BOOLEAN :
          undelayed' = IF gotoThrew THEN undelayed \cup {"fetch"} ELSE {}
    /\ UNCHANGED <<clock, intakeVars, dedupVars, transformVars, unitVars>>
    /\ UNCHANGED <<tz, dateFrom, dateTo, lastDay, hasMorePages, currentPage, batchNum,
                   k, batchItems, written, failed>>

\* one iteration of the row loop, the row examined being row
ScanStep(row) ==
    /\ pc = "scan"
    /\ i < nRows
    /\ LET outcome == ScanOutcome(row, dateFrom, dateTo, tz) IN
          /\ cur' = row
          /\ i' = i + 1
          /\ listings' = IF outcome = "admit"
                            THEN Append(listings, MkListing(row, currentPage, i + 1))
                            ELSE listings
          /\ shouldStopPagination' = (shouldStopPagination \/ outcome = "stop")
          /\ pc' = IF outcome = "stop" \/ i + 1 = nRows THEN "fetched" ELSE "scan"
    /\ UNCHANGED <<clock, intakeVars, dedupVars, transformVars, unitVars>>
    /\ UNCHANGED <<tz, dateFrom, dateTo, hasMorePages, currentPage, batchNum,
                   served, nRows, k, batchItems, fetchCount,
                   written, failed, undelayed>>

\* one iteration of the row loop on a source in any order
ScanRow ==
    /\ \E row \in Rows : ScanStep(row)
    /\ UNCHANGED lastDay

\* the rows a source in descending date order can serve after a row of day
\* last: a dated row is not newer than last
RowsInOrder(last) == {row \in Rows : row.fmt \in {"us", "text"} => row.day <= last}

\* one iteration of the row loop on a source in descending date order
ScanRowInOrder ==
    \E row \in RowsInOrder(lastDay) :
        /\ ScanStep(row)
        /\ lastDay' = IF row.fmt \in {"us", "text"} THEN row.day ELSE lastDay

(***************************************************************************)
(* run(), after fetchListings returned (lines 577-590): an empty page that *)
(* set the stop flag ends the run at once.                                 *)
(***************************************************************************)
ReceiveListings ==
    /\ pc = "fetched"
    /\ IF Len(listings) = 0 /\ shouldStopPagination
          THEN /\ hasMorePages' = FALSE
               /\ pc' = "done"
          ELSE /\ hasMorePages' = hasMorePages
               /\ pc' = "process"
    /\ k' = 0
    /\ batchItems' = <<>>
    /\ failed' = <<>>
    \* the locals of fetchListings are gone
    /\ i' = 0
    /\ cur' = NoRow
    /\ UNCHANGED <<clock, intakeVars, dedupVars, transformVars, unitVars>>
    /\ UNCHANGED <<tz, dateFrom, dateTo, lastDay, currentPage, batchNum, served, nRows,
                   listings, shouldStopPagination, fetchCount, written,
                   undelayed>>

(***************************************************************************)
(* processOpportunity for the next listing, with run()'s try/catch around  *)
(* it (lines 594-605).  The visit                                          *)
(*   "ok"            returns a BatchItem; run() pushes it and waits        *)
(*                   this.delay(1500);                                     *)
(*   "gotoThrows"    throws at browser.newPage() or detailPage.goto(),     *)
(*                   before the delay of line 396;                         *)
(*   "extractThrows" throws after detailPage.goto() and its delay(1000).   *)
(* After a throw run() logs the listing and continues with the next one,   *)
(* skipping the delay of line 601.                                         *)
(***************************************************************************)
ProcessOutcomes == {"ok", "gotoThrows", "extractThrows"}

\* ProcessOpportunity with run()'s catch throwing the error again
ProcessOpportunityRethrows ==
    /\ pc = "process"
    /\ k < Len(listings)
    /\ \E outcome \in ProcessOutcomes :
          /\ batchItems' = IF outcome = "ok"
                              THEN Append(batchItems, [listing |-> listings[k + 1].index])
                              ELSE batchItems
          /\ failed' = IF outcome = "ok" THEN failed
                                          ELSE Append(failed, listings[k + 1].index)
          /\ undelayed' = IF outcome = "gotoThrows" THEN undelayed \cup {"detail"}
                                                     ELSE {}
          /\ pc' = IF outcome = "ok" THEN pc ELSE "failed"
    /\ k' = k + 1
    /\ UNCHANGED <<clock, intakeVars, dedupVars, transformVars, unitVars>>
    /\ UNCHANGED <<tz, dateFrom, dateTo, lastDay, hasMorePages, currentPage, batchNum,
                   served, nRows, i, cur, listings, shouldStopPagination,
                   fetchCount, written>>

ProcessOpportunity ==
    /\ pc = "process"
    /\ k < Len(listings)
    /\ \E outcome \in ProcessOutcomes :
          /\ batchItems' = IF outcome = "ok"
                              THEN Append(batchItems, [listing |-> listings[k + 1].index])
                              ELSE batchItems
          /\ failed' = IF outcome = "ok" THEN failed
                                          ELSE Append(failed, listings[k + 1].index)
          /\ undelayed' = IF outcome = "gotoThrows" THEN undelayed \cup {"detail"}
                                                     ELSE {}
    /\ k' = k + 1
    /\ UNCHANGED <<clock, intakeVars, dedupVars, transformVars, unitVars>>
    /\ UNCHANGED <<tz, dateFrom, dateTo, lastDay, pc, hasMorePages, currentPage, batchNum,
                   served, nRows, i, cur, listings, shouldStopPagination,
                   fetchCount, written>>

\* SaveBatch without `this.batchNum++`
SaveBatchKeepsNumber ==
    /\ pc = "process"
    /\ k = Len(listings)
    /\ IF Len(batchItems) = 0
          THEN /\ pc' = "endpage"
               /\ UNCHANGED <<written, batchNum>>
          ELSE \E schemaOk \in BOOLEAN, writeOk \in BOOLEAN :
                  IF schemaOk /\ writeOk
                    THEN /\ written' = Append(written, batchNum)
                         /\ batchNum' = batchNum
                         /\ pc' = "endpage"
                    ELSE /\ pc' = "failed"
                         /\ UNCHANGED <<written, batchNum>>
    /\ UNCHANGED <<clock, intakeVars, dedupVars, transformVars, unitVars>>
    /\ UNCHANGED <<tz, dateFrom, dateTo, lastDay, hasMorePages, currentPage,
                   served, nRows, i, cur, listings,
                   shouldStopPagination, k, batchItems, fetchCount,
                   failed, undelayed>>

(***************************************************************************)
(* saveBatch and saveBatchToFile, as run() calls them (lines 608-612):     *)
(* only for a non-empty batch.  saveBatch throws when                      *)
(* SOURCE_TO_INTAKE.parse rejects the batch (schemaOk: the items' contents *)
(* are not modelled) or when fs.writeFile fails (writeOk); either ends     *)
(* run() with the error.                                                   *)
(***************************************************************************)
SaveBatch ==
    /\ pc = "process"
    /\ k = Len(listings)
    /\ IF Len(batchItems) = 0
          THEN /\ pc' = "endpage"
               /\ UNCHANGED <<written, batchNum>>
          ELSE \E schemaOk \in BOOLEAN, writeOk \in BOOLEAN :
                  IF schemaOk /\ writeOk
                    THEN /\ written' = Append(written, batchNum)
                         /\ batchNum' = batchNum + 1
                         /\ pc' = "endpage"
                    ELSE /\ pc' = "failed"
                         /\ UNCHANGED <<written, batchNum>>
    /\ UNCHANGED <<clock, intakeVars, dedupVars, transformVars, unitVars>>
    /\ UNCHANGED <<tz, dateFrom, dateTo, lastDay, hasMorePages, currentPage,
                   served, nRows, i, cur, listings,
                   shouldStopPagination, k, batchItems, fetchCount,
                   failed, undelayed>>

\* EndPage without the test `listings.length < batchSize`
EndPageIgnoresShortPage ==
    /\ pc = "endpage"
    /\ IF shouldStopPagination
          THEN /\ hasMorePages' = FALSE
               /\ currentPage' = currentPage
               /\ pc' = "done"
               /\ undelayed' = undelayed
          ELSE /\ hasMorePages' = hasMorePages
               /\ currentPage' = currentPage + 1
               /\ pc' = "loop"
               /\ undelayed' = {}
    /\ UNCHANGED <<clock, intakeVars, dedupVars, transformVars, unitVars>>
    /\ UNCHANGED <<tz, dateFrom, dateTo, lastDay, batchNum, served,
                   nRows, i, cur, listings, shouldStopPagination, k,
                   batchItems, fetchCount, written, failed>>

\* EndPage without `this.currentPage++`
EndPageKeepsPage ==
    /\ pc = "endpage"
    /\ IF shouldStopPagination
          THEN /\ hasMorePages' = FALSE
               /\ pc' = "done"
               /\ undelayed' = undelayed
          ELSE /\ hasMorePages' = IF Len(listings) < PageSize THEN FALSE
                                                               ELSE hasMorePages
               /\ pc' = "loop"
               /\ undelayed' = {}
    /\ currentPage' = currentPage
    /\ UNCHANGED <<clock, intakeVars, dedupVars, transformVars, unitVars>>
    /\ UNCHANGED <<tz, dateFrom, dateTo, lastDay, batchNum, served,
                   nRows, i, cur, listings, shouldStopPagination, k,
                   batchItems, fetchCount, written, failed>>

(***************************************************************************)
(* run(), the end of a loop iteration (lines 614-629): break on the stop   *)
(* flag; otherwise the next page after this.delay(2000).                   *)
(***************************************************************************)
EndPage ==
    /\ pc = "endpage"
    /\ IF shouldStopPagination
          THEN /\ hasMorePages' = FALSE
               /\ currentPage' = currentPage
               /\ pc' = "done"
               /\ undelayed' = undelayed
          ELSE /\ hasMorePages' = IF Len(listings) < PageSize THEN FALSE
                                                               ELSE hasMorePages
               /\ currentPage' = currentPage + 1
               /\ pc' = "loop"
               /\ undelayed' = {}
    /\ UNCHANGED <<clock, intakeVars, dedupVars, transformVars, unitVars>>
    /\ UNCHANGED <<tz, dateFrom, dateTo, lastDay, batchNum, served,
                   nRows, i, cur, listings, shouldStopPagination, k,
                   batchItems, fetchCount, written, failed>>

Next ==
    \/ Start
    \/ LoopExit
    \/ FetchListingsBegin
    \/ FetchListingsError
    \/ ScanRow
    \/ ReceiveListings
    \/ ProcessOpportunity
    \/ SaveBatch
    \/ EndPage

Spec == Init /\ [][Next]_vars

\* run() with every awaited call settling: a step that can be taken is
\* taken.  The process is in UTC and the window is the single day 1.
InitFair == Init /\ tz = 0 /\ dateTo = 1

SpecFair == InitFair /\ [][Next]_vars /\ WF_vars(Next)

\* run() on a source that lists its items in descending date order
NextInOrder ==
    \/ Start
    \/ LoopExit
    \/ FetchListingsBegin
    \/ FetchListingsError
    \/ ScanRowInOrder
    \/ ReceiveListings
    \/ ProcessOpportunity
    \/ SaveBatch
    \/ EndPage

SpecInOrder == Init /\ [][NextInOrder]_vars

(***************************************************************************)
(* The intake run: identifiers.  The SHA-256 digest is taken to be free of *)
(* collisions: Sha256Hex16(s) stands for the first 16 hex digits of the    *)
(* digest of s, and differs for different s.                               *)
(***************************************************************************)
Sha256Hex16(s) == "#" \o s

\* helpers generateId (storage.ts), called with a prefix
GenerateId(input, prefix) == prefix \o "-" \o Sha256Hex16(input)

\* the try branch; the catch branch builds the same string by hand
GenerateContractId(eventId, src) ==
    GenerateId(TemplateStr(src) \o "-" \o TemplateStr(eventId), "contract")

GenerateAgencyId(agencyCode, src) ==
    IF agencyCode = Null
      THEN "agency-" \o Sha256Hex16(TemplateStr(src) \o "-" \o TemplateStr(src))
      ELSE GenerateId(TemplateStr(src) \o "-" \o TemplateStr(agencyCode), "agency")

GenerateDocumentId(documentUrl, src) ==
    GenerateId(TemplateStr(src) \o "-" \o TemplateStr(documentUrl), "doc")

GeneratePersonId(email, src) ==
    GenerateId(TemplateStr(src) \o "-" \o TemplateStr(email), "person")

GeneratePersonIdFromName(name, src) ==
    GenerateId(TemplateStr(src) \o "-" \o TemplateStr(name), "person")

(***************************************************************************)
(* The raw records an intake run reads.  An item with iterable = FALSE has *)
(* no documents array (the batch fails SOURCE_TO_INTAKE, which             *)
(* processIntake only logs).  A transformer that may return null returns   *)
(* a sequence here: <<>> for null, <<record>> for a record.                *)
(***************************************************************************)
EventIds == {"164192", "164193", Null}
Entities == {"Cherokee Nation", Null}
Emails == {"jane@x.com", "JANE@X.COM", Null}
Names == {"Jane", Null}
DocLists == {<<>>, <<"u1">>}
Sources == {"cherokee", Null, NotAString}

Opportunities == [eventId : EventIds, entity : Entities, buyerEmail : Emails,
                  buyerName : Names]
Items == {it \in [opportunity : Opportunities, documents : DocLists,
                    iterable : BOOLEAN] :
            ~it.iterable => it.documents = <<>>}

\* String.prototype.toLowerCase().trim() on the e-mail addresses of the model
LowerTrim(str) == IF str = "JANE@X.COM" THEN "jane@x.com" ELSE str

\* normalizeEmail; every address of the model passes emailRegex
NormalizeEmail(email) == IF email = Null THEN Null ELSE LowerTrim(email)

\* TransformContract with the id taken from the input and the time of the call
TransformContractTimestampedId(opp, src, now) ==
    [id |-> GenerateContractId(opp.eventId, src) \o "@" \o ToString(now),
     externalId |-> opp.eventId,
     source |-> src,
     agencyId |-> Null,
     contactIds |-> <<>>,
     scrapedAt |-> now]

\* YourStateContractTransformer.transform
TransformContract(opp, src, now) ==
    [id |-> GenerateContractId(opp.eventId, src),
     externalId |-> opp.eventId,
     source |-> src,
     agencyId |-> Null,
     contactIds |-> <<>>,
     scrapedAt |-> now]

\* YourStateAgencyTransformer.transform; null when there is no entity
TransformAgency(opp, src) ==
    IF opp.entity = Null THEN <<>>
    ELSE <<[id |-> GenerateAgencyId(opp.entity, src),
            externalId |-> opp.entity,
            source |-> src,
            name |-> opp.entity]>>

\* YourStateDocumentTransformer.transform
TransformDocument(doc, contractId, src, now) ==
    [id |-> GenerateDocumentId(doc, src),
     contractId |-> contractId,
     source |-> src,
     fileUrl |-> doc,
     uploadedAt |-> now]

\* YourStatePeopleTransformer.transform; null when there is no contact
TransformPeople(opp, contractId, src) ==
    IF opp.buyerEmail = Null /\ opp.buyerName = Null THEN <<>>
    ELSE <<[id |-> IF opp.buyerEmail # Null
                      THEN GeneratePersonId(opp.buyerEmail, src)
                      ELSE GeneratePersonIdFromName(opp.buyerName, src),
            contractId |-> contractId,
            source |-> src,
            name |-> IF opp.buyerName # Null THEN opp.buyerName ELSE "Unknown",
            email |-> NormalizeEmail(opp.buyerEmail)]>>

\* deduplicateBy with the first item of a key replaced by each later one
\* (seen.set without the seen.has test)
DeduplicateByKeepsLast(items, field) ==
    LET seen[n \in 0..Len(items)] ==
            IF n = 0 THEN <<>>
            ELSE LET prev == seen[n - 1]
                     item == items[n]
                 IN  IF \E e \in 1..Len(prev) : prev[e][field] = item[field]
                       THEN [e \in 1..Len(prev) |->
                               IF prev[e][field] = item[field] THEN item ELSE prev[e]]
                       ELSE Append(prev, item)
    IN  seen[Len(items)]

\* helpers deduplicateBy(items, x => x[field]): seen is the Map, in insertion
\* order, after the first n items
DeduplicateBy(items, field) ==
    LET seen[n \in 0..Len(items)] ==
            IF n = 0 THEN <<>>
            ELSE LET prev == seen[n - 1]
                     item == items[n]
                 IN  IF \E e \in 1..Len(prev) : prev[e][field] = item[field]
                       THEN prev
                       ELSE Append(prev, item)
    IN  seen[Len(items)]

\* INTAKE_OUTPUT.parse: of the fields the model keeps, externalId and source
\* are the ones that can fail z.string()
IntakeOutputValid(out) ==
    /\ IsString(out.source)
    /\ \A j \in 1..Len(out.contracts) : IsString(out.contracts[j].externalId)

IntakeInit ==
    /\ ipc = "start"
    /\ source = "unknown"
    /\ nItems = 0 /\ done = 0
    /\ contracts = <<>> /\ agencies = <<>> /\ documents = <<>> /\ people = <<>>
    /\ output = EmptyOutput
    /\ intakeFiles = <<>>

InitIntake ==
    /\ ScraperIdle /\ clock = 0 /\ IntakeInit /\ DedupIdle /\ TransformIdle
    /\ UnitsIdle

(***************************************************************************)
(* processIntake, lines 412-443: readBatchFiles (which throws when the     *)
(* session directory cannot be listed), the batch validation that only     *)
(* logs, and the source name of the first batch.                           *)
(***************************************************************************)
ReadBatches ==
    /\ ipc = "start"
    /\ \E dirOk \in BOOLEAN, metaSource \in Sources, n \in 0..MaxItems :
          IF dirOk
            THEN /\ ipc' = "transform"
                 /\ source' = IF metaSource = Null THEN "unknown" ELSE metaSource
                 /\ nItems' = n
            ELSE /\ ipc' = "failed"
                 /\ UNCHANGED <<source, nItems>>
    /\ UNCHANGED <<done, contracts, agencies, documents, people, output,
                   intakeFiles>>
    /\ UNCHANGED <<scraperVars, clock, dedupVars, transformVars, unitVars>>

(***************************************************************************)
(* processIntake, lines 447-487: one batch item.  The contract is pushed   *)
(* first and linked afterwards (the array holds the same object); an item  *)
(* without a documents array throws at the documents loop, after the       *)
(* contract and the agency were pushed and before the person is built, and *)
(* the item's catch logs and continues.                                    *)
(***************************************************************************)
TransformItem ==
    /\ ipc = "transform"
    /\ done < nItems
    /\ \E item \in Items :
          LET opp == item.opportunity
              contract == TransformContract(opp, source, clock)
              agency == TransformAgency(opp, source)
              throws == ~item.iterable
              person == IF throws THEN <<>>
                                  ELSE TransformPeople(opp, contract.id, source)
              linked == [contract EXCEPT
                           !.agencyId = IF agency # <<>> THEN agency[1].id ELSE Null,
                           !.contactIds = IF person # <<>> THEN <<person[1].id>>
                                                           ELSE <<>>]
              docs == IF throws THEN <<>>
                      ELSE [d \in 1..Len(item.documents) |->
                              TransformDocument(item.documents[d], contract.id,
                                                source, clock)]
          IN  /\ contracts' = Append(contracts, linked)
              /\ agencies' = agencies \o agency
              /\ documents' = documents \o docs
              /\ people' = people \o person
    /\ done' = done + 1
    /\ clock' = clock + 1
    /\ UNCHANGED <<ipc, source, nItems, output, intakeFiles>>
    /\ UNCHANGED <<scraperVars, dedupVars, transformVars, unitVars>>

\* DedupAndAssemble with the people deduplicated by name instead of id
DedupAndAssembleByName ==
    /\ ipc = "transform"
    /\ done = nItems
    /\ output' = [contracts |-> contracts,
                  agencies |-> DeduplicateBy(agencies, "name"),
                  documents |-> documents,
                  people |-> DeduplicateBy(people, "name"),
                  source |-> source]
    /\ ipc' = "assembled"
    /\ UNCHANGED <<source, nItems, done, contracts, agencies, documents, people,
                   intakeFiles>>
    /\ UNCHANGED <<scraperVars, clock, dedupVars, transformVars, unitVars>>

\* processIntake, lines 492-534: deduplicate agencies and people by id and
\* assemble the output
DedupAndAssemble ==
    /\ ipc = "transform"
    /\ done = nItems
    /\ output' = [contracts |-> contracts,
                  agencies |-> DeduplicateBy(agencies, "id"),
                  documents |-> documents,
                  people |-> DeduplicateBy(people, "id"),
                  source |-> source]
    /\ ipc' = "assembled"
    /\ UNCHANGED <<source, nItems, done, contracts, agencies, documents, people,
                   intakeFiles>>
    /\ UNCHANGED <<scraperVars, clock, dedupVars, transformVars, unitVars>>

\* ValidateOutput with a failure logged and not rethrown (as the batch
\* validation of lines 422-429 does)
ValidateOutputLogsOnly ==
    /\ ipc = "assembled"
    /\ ipc' = "validated"
    /\ UNCHANGED <<source, nItems, done, contracts, agencies, documents, people,
                   output, intakeFiles>>
    /\ UNCHANGED <<scraperVars, clock, dedupVars, transformVars, unitVars>>

\* processIntake, lines 536-543: INTAKE_OUTPUT.parse; a failure is rethrown
ValidateOutput ==
    /\ ipc = "assembled"
    /\ ipc' = IF IntakeOutputValid(output) THEN "validated" ELSE "rejected"
    /\ UNCHANGED <<source, nItems, done, contracts, agencies, documents, people,
                   output, intakeFiles>>
    /\ UNCHANGED <<scraperVars, clock, dedupVars, transformVars, unitVars>>

\* processIntake, lines 545-547: saveIntakeToFile, which throws when the
\* directory or the file cannot be written
SaveIntakeToFile ==
    /\ ipc = "validated"
    /\ \E writeOk \in BOOLEAN :
          IF writeOk
            THEN /\ intakeFiles' = Append(intakeFiles, output)
                 /\ ipc' = "saved"
            ELSE /\ intakeFiles' = intakeFiles
                 /\ ipc' = "failed"
    /\ UNCHANGED <<source, nItems, done, contracts, agencies, documents, people,
                   output>>
    /\ UNCHANGED <<scraperVars, clock, dedupVars, transformVars, unitVars>>

NextIntake ==
    \/ ReadBatches
    \/ TransformItem
    \/ DedupAndAssemble
    \/ ValidateOutput
    \/ SaveIntakeToFile

SpecIntake == InitIntake /\ [][NextIntake]_vars

(***************************************************************************)
(* deduplicateBy on its own: every list of at most MaxLen records over two *)
(* keys and two values of an incidental attribute.                         *)
(***************************************************************************)
DedupKeys == {"agency-1", "agency-2"}
DedupNames == {"Cherokee Nation", "CHEROKEE NATION"}
DedupRecords == [id : DedupKeys, name : DedupNames]
DedupInputs == UNION {[1..n -> DedupRecords] : n \in 0..MaxLen}

InitDedup ==
    /\ ScraperIdle /\ clock = 0 /\ IntakeIdle /\ TransformIdle /\ UnitsIdle
    /\ dedupInput \in DedupInputs
    /\ dedupOutput = <<>>
    /\ dedupDone = FALSE

ApplyDeduplicateBy ==
    /\ ~dedupDone
    /\ dedupOutput' = DeduplicateBy(dedupInput, "id")
    /\ dedupDone' = TRUE
    /\ UNCHANGED dedupInput
    /\ UNCHANGED <<scraperVars, clock, intakeVars, transformVars, unitVars>>

NextDedup == ApplyDeduplicateBy

SpecDedup == InitDedup /\ [][NextDedup]_vars

(***************************************************************************)
(* The transformers on their own: one opportunity and one source name,     *)
(* transformed up to MaxRuns times while the wall clock advances.          *)
(***************************************************************************)
TransformSources == {"cherokee", "unknown"}
Elapsed == {1, 2}

InitTransform ==
    /\ ScraperIdle /\ clock = 0 /\ IntakeIdle /\ DedupIdle /\ UnitsIdle
    /\ tOpp \in Opportunities
    /\ tSource \in TransformSources
    /\ tRuns = <<>>

TransformOnce ==
    /\ Len(tRuns) < MaxRuns
    /\ LET contract == TransformContract(tOpp, tSource, clock)
       IN  tRuns' = Append(tRuns,
                           [contract |-> contract,
                            agency |-> TransformAgency(tOpp, tSource),
                            person |-> TransformPeople(tOpp, contract.id, tSource)])
    /\ \E dt \in Elapsed : clock' = clock + dt
    /\ UNCHANGED <<tOpp, tSource>>
    /\ UNCHANGED <<scraperVars, intakeVars, dedupVars, unitVars>>

NextTransform == TransformOnce

SpecTransform == InitTransform /\ [][NextTransform]_vars


(***************************************************************************)
(* processOpportunity on its own (scraper.ts lines 385-468): one visit of  *)
(* a detail page, step by step, for each listing of run()'s loop (lines    *)
(* 594-606) in turn.  A document is its downloadUrl.                       *)
(***************************************************************************)
DocUrls == {"https://bids/a.pdf", "https://bids/b.pdf"}
DocSeqs == UNION {[1..n -> DocUrls] : n \in 0..MaxDocs}

\* downloadFileLocally: the file was written ("saved"), fetch rejected
\* ("network"), the response was not ok ("http"), mkdir or writeFile failed
\* ("fs"); every failure is thrown as `Failed to download file ...`
DownloadResults == {"saved", "network", "http", "fs"}

InitVisit ==
    /\ ScraperIdle /\ clock = 0 /\ IntakeIdle /\ DedupIdle /\ TransformIdle
    /\ ReadIdle /\ SelectorsIdle /\ LabelsIdle /\ TabsIdle /\ OppIdle
    /\ StatusIdle /\ UtilIdle
    /\ vpc = "start"
    /\ vDocuments = <<>> /\ vNext = 0 /\ vAttempts = <<>> /\ vItem = <<>>
    /\ vOpen = 0 /\ vOutcomes = <<>>

\* lines 389-396: browser.newPage() and detailPage.goto().  newPage is
\* called before the try: when it throws there is no page and the error
\* leaves processOpportunity at once.  When goto throws, the page is open and
\* the error goes through the catch, which throws it again, to the finally.
OpenDetailPage ==
    /\ vpc = "start"
    /\ \E outcome \in {"opened", "newPageThrows", "gotoThrows"} :
          /\ vpc' = CASE outcome = "opened" -> "extract"
                      [] outcome = "newPageThrows" -> "threw"
                      [] outcome = "gotoThrows" -> "closing"
          /\ vOpen' = IF outcome = "newPageThrows" THEN vOpen ELSE vOpen + 1
    /\ UNCHANGED <<vDocuments, vNext, vAttempts, vItem, vOutcomes>>
    /\ UNCHANGED <<pipelineVars, readVars, selectorVars, labelVars, tabVars,
                   oppVars, statusVars, utilVars>>

\* ExtractDetail with a throw leaving processOpportunity without running
\* the finally block
ExtractDetailLeavesPageOpen ==
    /\ vpc = "extract"
    /\ \E extractOk \in BOOLEAN, main \in DocSeqs, tab \in DocSeqs,
          tabThrows \in BOOLEAN :
          IF extractOk
            THEN /\ vDocuments' = IF main # <<>> THEN main
                                  ELSE IF tabThrows THEN <<>> ELSE tab
                 /\ vpc' = "download"
            ELSE /\ vDocuments' = vDocuments
                 /\ vpc' = "threw"
    /\ UNCHANGED <<vNext, vAttempts, vItem, vOpen, vOutcomes>>
    /\ UNCHANGED <<pipelineVars, readVars, selectorVars, labelVars, tabVars,
                   oppVars, statusVars, utilVars>>

\* lines 398-437: the opportunity, the contact data (its failure is only
\* logged) and the documents; when the page shows no document, the
\* Documents tab is tried, and a failure there is only logged.  A throw
\* goes through the catch, which throws it again, to the finally.
ExtractDetail ==
    /\ vpc = "extract"
    /\ \E extractOk \in BOOLEAN, main \in DocSeqs, tab \in DocSeqs,
          tabThrows \in BOOLEAN :
          IF extractOk
            THEN /\ vDocuments' = IF main # <<>> THEN main
                                  ELSE IF tabThrows THEN <<>> ELSE tab
                 /\ vpc' = "download"
            ELSE /\ vDocuments' = vDocuments
                 /\ vpc' = "closing"
    /\ UNCHANGED <<vNext, vAttempts, vItem, vOpen, vOutcomes>>
    /\ UNCHANGED <<pipelineVars, readVars, selectorVars, labelVars, tabVars,
                   oppVars, statusVars, utilVars>>

\* DownloadDocument with the catch of lines 451-454 throwing the error again
DownloadDocumentRethrows ==
    /\ vpc = "download"
    /\ vNext < Len(vDocuments)
    /\ \E result \in DownloadResults :
          /\ vAttempts' = Append(vAttempts, [doc |-> vNext + 1, result |-> result])
          /\ vpc' = IF result = "saved" THEN vpc ELSE "closing"
    /\ vNext' = vNext + 1
    /\ UNCHANGED <<vDocuments, vItem, vOpen, vOutcomes>>
    /\ UNCHANGED <<pipelineVars, readVars, selectorVars, labelVars, tabVars,
                   oppVars, statusVars, utilVars>>

\* lines 440-455: one iteration of the download loop: downloadFileLocally
\* is called once, and whatever it throws is logged
DownloadDocument ==
    /\ vpc = "download"
    /\ vNext < Len(vDocuments)
    /\ \E result \in DownloadResults :
          vAttempts' = Append(vAttempts, [doc |-> vNext + 1, result |-> result])
    /\ vNext' = vNext + 1
    /\ UNCHANGED <<vpc, vDocuments, vItem, vOpen, vOutcomes>>
    /\ UNCHANGED <<pipelineVars, readVars, selectorVars, labelVars, tabVars,
                   oppVars, statusVars, utilVars>>

\* lines 457-461: return { opportunity, documents }: the value is kept
\* while the finally block runs
ReturnItem ==
    /\ vpc = "download"
    /\ vNext = Len(vDocuments)
    /\ vItem' = <<[documents |-> vDocuments]>>
    /\ vpc' = "closing"
    /\ UNCHANGED <<vDocuments, vNext, vAttempts, vOpen, vOutcomes>>
    /\ UNCHANGED <<pipelineVars, readVars, selectorVars, labelVars, tabVars,
                   oppVars, statusVars, utilVars>>

\* lines 465-467: the finally block, await detailPage.close().  After it
\* the page is gone from the browser; an error thrown by close() (the
\* browser is no longer reachable) replaces the return value or the error
\* under way.
ClosePage ==
    /\ vpc = "closing"
    /\ vOpen' = vOpen - 1
    /\ \E closeOk \in BOOLEAN :
          IF closeOk /\ vItem # <<>>
            THEN /\ vpc' = "returned"
                 /\ vItem' = vItem
            ELSE /\ vpc' = "threw"
                 /\ vItem' = <<>>
    /\ UNCHANGED <<vDocuments, vNext, vAttempts, vOutcomes>>
    /\ UNCHANGED <<pipelineVars, readVars, selectorVars, labelVars, tabVars,
                   oppVars, statusVars, utilVars>>

\* run(), lines 594-605: the item is pushed, or the error is caught and
\* logged; the loop goes on to the next listing
NextListing ==
    /\ vpc \in {"returned", "threw"}
    /\ Len(vOutcomes) + 1 < MaxVisits
    /\ vOutcomes' = Append(vOutcomes, vpc)
    /\ vpc' = "start"
    /\ vDocuments' = <<>> /\ vNext' = 0 /\ vAttempts' = <<>> /\ vItem' = <<>>
    /\ UNCHANGED vOpen
    /\ UNCHANGED <<pipelineVars, readVars, selectorVars, labelVars, tabVars,
                   oppVars, statusVars, utilVars>>

NextVisit ==
    \/ OpenDetailPage
    \/ ExtractDetail
    \/ DownloadDocument
    \/ ReturnItem
    \/ ClosePage
    \/ NextListing

SpecVisit == InitVisit /\ [][NextVisit]_vars


(***************************************************************************)
(* readBatchFiles on its own (storage.ts lines 431-463), file by file, and *)
(* what processIntake does with its result.  A batch file is "ok",         *)
(* "unreadable" (fs.readFile rejects) or "unparseable" (JSON.parse         *)
(* throws).  The session directory holds batch_1.json .. batch_n.json, as  *)
(* saveBatch names them (storage.ts line 253), and possibly a file that is *)
(* no batch file (number 0 here); fs.readdir lists them in some order.     *)
(***************************************************************************)
FileStates == {"ok", "unreadable", "unparseable"}
\* the state of each of n batch files: those after the first MaxFiles are ok
SessionDirs(n) ==
    {[m \in 1..n |-> IF m <= MaxFiles THEN st[m] ELSE "ok"] :
        st \in [1..MaxFiles -> FileStates]}

\* the orders of the listing: 1..n rotated by r, forwards or backwards
ListingOrder(n, r, backwards) ==
    [m \in 1..n |-> LET at == ((m - 1 + r) % n) + 1
                    IN  IF backwards THEN n + 1 - at ELSE at]

OtherFile == [num |-> 0, state |-> "ok"]

DirListings ==
    {<<>>, <<OtherFile>>} \cup
    UNION {UNION {{[m \in 1..n |-> [num |-> ListingOrder(n, r, b)[m],
                                    state |-> st[ListingOrder(n, r, b)[m]]]],
                   <<OtherFile>> \o
                   [m \in 1..n |-> [num |-> ListingOrder(n, r, b)[m],
                                    state |-> st[ListingOrder(n, r, b)[m]]]]} :
                     r \in 0..(n - 1), b \in BOOLEAN, st \in SessionDirs(n)} :
              n \in 1..MaxBatchNum}

\* file.startsWith('batch_') && file.endsWith('.json')
IsBatchFile(file) == file.num > 0

\* the characters of `${batchNum}.json` that decide the comparison of two
\* names: the decimal digits of the number, then the full stop, which
\* sorts before every digit
RECURSIVE Digits(_)
Digits(n) == IF n < 10 THEN <<n>> ELSE Append(Digits(n \div 10), n % 10)
FullStop == -1
NameKey(file) == Append(Digits(file.num), FullStop)

\* the default comparison of Array.prototype.sort: by code units
RECURSIVE StringLess(_, _)
StringLess(a, b) ==
    IF b = <<>> THEN FALSE
    ELSE IF a = <<>> THEN TRUE
    ELSE IF Head(a) # Head(b) THEN Head(a) < Head(b)
    ELSE StringLess(Tail(a), Tail(b))

\* .sort() with no comparator
RECURSIVE InsertByName(_, _)
InsertByName(file, sorted) ==
    IF sorted = <<>> THEN <<file>>
    ELSE IF StringLess(NameKey(file), NameKey(Head(sorted)))
         THEN <<file>> \o sorted
         ELSE <<Head(sorted)>> \o InsertByName(file, Tail(sorted))

RECURSIVE SortNames(_)
SortNames(files) ==
    IF files = <<>> THEN <<>>
    ELSE InsertByName(Head(files), SortNames(Tail(files)))

InitRead ==
    /\ ScraperIdle /\ clock = 0 /\ DedupIdle /\ TransformIdle /\ VisitIdle
    /\ SelectorsIdle /\ LabelsIdle /\ TabsIdle /\ OppIdle
    /\ StatusIdle /\ UtilIdle
    /\ IntakeInit
    /\ rpc = "list"
    /\ rListing \in DirListings
    /\ rFiles = <<>>
    /\ rIdx = 0 /\ rBatches = <<>> /\ rWarned = <<>>

\* lines 440-443: fs.readdir; its failure is thrown by the outer catch
ListSessionDir ==
    /\ rpc = "list"
    /\ \E dirOk \in BOOLEAN :
          IF dirOk
          THEN /\ rFiles' = SortNames(SelectSeq(rListing, IsBatchFile))
               /\ rpc' = "read"
          ELSE /\ rpc' = "threw"
               /\ UNCHANGED rFiles
    /\ UNCHANGED <<rListing, rIdx, rBatches, rWarned>>
    /\ UNCHANGED <<pipelineVars, visitVars, selectorVars, labelVars, tabVars,
                   oppVars, statusVars, utilVars>>

\* lines 447-457: one iteration of the loop over the batch files
ReadBatchFile ==
    /\ rpc = "read"
    /\ rIdx < Len(rFiles)
    /\ IF rFiles[rIdx + 1].state = "ok"
          THEN /\ rBatches' = Append(rBatches, rFiles[rIdx + 1].num)
               /\ rWarned' = rWarned
          ELSE /\ rBatches' = rBatches
               /\ rWarned' = Append(rWarned, rFiles[rIdx + 1].num)
    /\ rIdx' = rIdx + 1
    /\ UNCHANGED <<rpc, rListing, rFiles>>
    /\ UNCHANGED <<pipelineVars, visitVars, selectorVars, labelVars, tabVars,
                   oppVars, statusVars, utilVars>>

\* line 459: return batches
ReturnBatches ==
    /\ rpc = "read"
    /\ rIdx = Len(rFiles)
    /\ rpc' = "returned"
    /\ UNCHANGED <<rListing, rFiles, rIdx, rBatches, rWarned>>
    /\ UNCHANGED <<pipelineVars, visitVars, selectorVars, labelVars, tabVars,
                   oppVars, statusVars, utilVars>>

\* processIntake, lines 418-443: with the batches returned it goes on to
\* the transformation (every batch holding one item); an error thrown by
\* readBatchFiles goes through the outer catch to the caller
ProcessIntakeReceives ==
    /\ ipc = "start"
    /\ rpc \in {"returned", "threw"}
    /\ IF rpc = "returned"
          THEN \E metaSource \in Sources :
                  /\ ipc' = "transform"
                  /\ source' = IF metaSource = Null \/ rBatches = <<>>
                                  THEN "unknown" ELSE metaSource
                  /\ nItems' = Len(rBatches)
          ELSE /\ ipc' = "failed"
               /\ UNCHANGED <<source, nItems>>
    /\ UNCHANGED <<done, contracts, agencies, documents, people, output,
                   intakeFiles>>
    /\ UNCHANGED <<scraperVars, clock, dedupVars, transformVars, unitVars>>

NextRead ==
    \/ ListSessionDir
    \/ ReadBatchFile
    \/ ReturnBatches
    \/ ProcessIntakeReceives

SpecRead == InitRead /\ [][NextRead]_vars


(***************************************************************************)
(* extractFromMultipleSelectors on its own (OpportunityExtractor.ts lines  *)
(* 784-816).  A selector is given with what the page holds for it:         *)
(*   state  "missing" locator.count() is 0, "throws" count() throws (an    *)
(*          invalid selector), "found" an element matches;                 *)
(*   text   the element's textContent;                                     *)
(*   isHref selector.includes('href');                                     *)
(*   href   the element's href attribute.                                  *)
(***************************************************************************)
Blank == "  "
Texts == {Null, "", Blank, "Open"}
Hrefs == {Null, "mailto:", "mailto:jane@x.com?subject=Bid", "tel:",
          "tel:555 0100", "https://bids/contact"}
SelectorStates ==
    {sel \in [state : {"missing", "throws", "found"}, text : Texts,
              isHref : BOOLEAN, href : Hrefs] :
        /\ sel.state # "found" => sel.text = Null /\ ~sel.isHref
        /\ ~sel.isHref => sel.href = Null}
SelectorLists == UNION {[1..n -> SelectorStates] : n \in 0..MaxSelectors}

\* String.prototype.trim() on the strings of the model
Trim(str) == IF str = Blank THEN "" ELSE str

\* a JavaScript string that is truthy
Truthy(str) == str \notin {Null, ""}

\* extractText (lines 751-761) for a locator that matches an element
ExtractText(sel) == IF Truthy(sel.text) THEN Trim(sel.text) ELSE Null

\* extractAttribute(locator, 'href') (lines 766-779)
ExtractAttribute(sel) == IF Truthy(sel.href) THEN Trim(sel.href) ELSE Null

IsMailto(href) == href \in {"mailto:", "mailto:jane@x.com?subject=Bid"}
IsTel(href) == href \in {"tel:", "tel:555 0100"}

\* href.replace('mailto:', '').split('?')[0]
StripMailto(href) == IF href = "mailto:" THEN "" ELSE "jane@x.com"

\* href.replace('tel:', '').replace(/\s+/g, '')
StripTel(href) == IF href = "tel:" THEN "" ELSE "5550100"

\* the body of the for loop for one selector: <<value>> when it returns,
\* <<>> when the loop goes on to the next selector
TrySelector(sel) ==
    IF sel.state # "found" THEN <<>>
    ELSE IF Truthy(ExtractText(sel)) THEN <<ExtractText(sel)>>
    ELSE IF sel.isHref /\ Truthy(ExtractAttribute(sel))
           THEN IF IsMailto(ExtractAttribute(sel))
                  THEN <<StripMailto(ExtractAttribute(sel))>>
                ELSE IF IsTel(ExtractAttribute(sel))
                  THEN <<StripTel(ExtractAttribute(sel))>>
                ELSE <<>>
    ELSE <<>>

ExtractFromMultipleSelectors(selectors) ==
    LET from[n \in 1..(Len(selectors) + 1)] ==
            IF n > Len(selectors) THEN Null
            ELSE IF TrySelector(selectors[n]) # <<>>
                   THEN TrySelector(selectors[n])[1]
                   ELSE from[n + 1]
    IN  from[1]

InitSelectors ==
    /\ ScraperIdle /\ clock = 0 /\ IntakeIdle /\ DedupIdle /\ TransformIdle
    /\ VisitIdle /\ ReadIdle /\ LabelsIdle /\ TabsIdle /\ OppIdle
    /\ StatusIdle /\ UtilIdle
    /\ sSelectors \in SelectorLists
    /\ sResult = Null
    /\ sDone = FALSE

ApplyExtractFromMultipleSelectors ==
    /\ ~sDone
    /\ sResult' = ExtractFromMultipleSelectors(sSelectors)
    /\ sDone' = TRUE
    /\ UNCHANGED sSelectors
    /\ UNCHANGED <<pipelineVars, visitVars, readVars, labelVars, tabVars,
                   oppVars, statusVars, utilVars>>

NextSelectors == ApplyExtractFromMultipleSelectors

SpecSelectors == InitSelectors /\ [][NextSelectors]_vars


(***************************************************************************)
(* extractLabeledValue on its own (OpportunityExtractor.ts lines 822-905). *)
(* The page is given by what the function reads from it:                   *)
(*   cells        the [key, value] pairs of the rows extractTable returns  *)
(*                for the first table selector that matches, in order      *)
(*                (keys are lower-cased headers, values are trimmed);      *)
(*   tableThrows  table.count() throws;                                    *)
(*   text         the text of the first element that has a label's text,   *)
(*                as its words (what [:\s]+ separates), on one line;       *)
(*   sibling      the text of the element's next sibling ('+ *');          *)
(*   parentText   the text of its parent ('..'), as words;                 *)
(*   following    the text of its first following sibling ('~ *');         *)
(*   fallbackThrows  a locator call of the fallback throws.                *)
(* A word list <<>> stands for a null or empty text.                       *)
(***************************************************************************)
Labels == {"Status", "Stage"}
Words == {"Status", "Open"}
WordLists == UNION {[1..n -> Words] : n \in 0..2}
TableKeys == {"status", "bid_status", "title"}
CellValues == {"", "Open", "Status"}
CellLists == UNION {[1..n -> [key : TableKeys, value : CellValues]] : n \in 0..MaxCells}
SiblingTexts == {Null, Blank, "Open", "Status"}
LabelLists == UNION {[1..n -> Labels] : n \in 0..MaxLabels}
Pages == [cells : CellLists, tableThrows : BOOLEAN, text : WordLists,
          sibling : SiblingTexts, parentText : {<<>>, <<"Status", "Open">>},
          following : {Null, "Open"}, fallbackThrows : BOOLEAN]

\* String.prototype.toLowerCase on the labels and words of the model
ToLowerCase(str) ==
    CASE str = "Status" -> "status"
      [] str = "Stage" -> "stage"
      [] str = "Open" -> "open"
      [] str = "Date" -> "date"
      [] str = "Bid" -> "bid"
      [] OTHER -> str

\* A header or label text as the list of its pieces: words, the white space
\* between them (Space, one piece per character) and underscores.
Space == " "
Underscore == "_"

\* toLowerCase on a text
TextToLowerCase(text) == [n \in DOMAIN text |-> ToLowerCase(text[n])]

\* trim on a text
RECURSIVE TrimStart(_)
TrimStart(text) ==
    IF text # <<>> /\ Head(text) = Space THEN TrimStart(Tail(text)) ELSE text
RECURSIVE TrimEnd(_)
TrimEnd(text) ==
    IF text # <<>> /\ text[Len(text)] = Space
    THEN TrimEnd(SubSeq(text, 1, Len(text) - 1)) ELSE text
TrimText(text) == TrimEnd(TrimStart(text))

\* replace(/\s+/g, '_'): every run of white space becomes one underscore
RECURSIVE ReplaceSpaces(_)
ReplaceSpaces(text) ==
    IF text = <<>> THEN <<>>
    ELSE IF Head(text) = Space
         THEN <<Underscore>> \o ReplaceSpaces(TrimStart(text))
         ELSE <<Head(text)>> \o ReplaceSpaces(Tail(text))

\* lines 926-936 and 942-949 of extractTable: the key made of a header cell
NormalizeHeader(text) == ReplaceSpaces(TextToLowerCase(TrimText(text)))

\* String.prototype.includes
Includes(text, part) ==
    \E from \in 1..(Len(text) + 1) :
        /\ from + Len(part) - 1 <= Len(text)
        /\ SubSeq(text, from, from + Len(part) - 1) = part

\* lines 838-840:
\* keyLower === label.toLowerCase() || keyLower.includes(label.toLowerCase())
KeyMatchesLabel(key, label) ==
    LET keyLower == TrimText(TextToLowerCase(key)) IN
    \/ keyLower = TextToLowerCase(label)
    \/ Includes(keyLower, TextToLowerCase(label))

\* the keys and labels of the pages below as texts
PiecesOf(str) ==
    IF str = "bid_status" THEN <<"bid", Underscore, "status">> ELSE <<str>>

KeyMatches(key, label) == KeyMatchesLabel(PiecesOf(key), PiecesOf(label))

\* lines 831-849: the first cell whose key matches a label and whose value
\* is not empty; <<>> when there is none
TableValue(cells, labels) ==
    LET from[n \in 1..(Len(cells) + 1)] ==
            IF n > Len(cells) THEN <<>>
            ELSE IF /\ \E j \in 1..Len(labels) : KeyMatches(cells[n].key, labels[j])
                    /\ Truthy(Trim(cells[n].value))
                   THEN <<Trim(cells[n].value)>>
                   ELSE from[n + 1]
    IN  from[1]

\* page.locator(`:has-text("${label}")`): the text holds the label, in any
\* letter case
HasText(words, label) ==
    \E w \in 1..Len(words) : ToLowerCase(words[w]) = ToLowerCase(label)

\* text.match(new RegExp(`${label}[:\\s]+(.+)`, 'i')): the rest of the line
\* after the first occurrence of the label that something follows; <<>>
\* when there is no match
MatchAfterLabel(words, label) ==
    IF \E w \in 1..(Len(words) - 1) : ToLowerCase(words[w]) = ToLowerCase(label)
      THEN LET w == CHOOSE w \in 1..(Len(words) - 1) :
                        /\ ToLowerCase(words[w]) = ToLowerCase(label)
                        /\ \A v \in 1..(w - 1) :
                              ToLowerCase(words[v]) # ToLowerCase(label)
           IN  <<words[w + 1]>>
      ELSE <<>>

\* lines 857-896: the fallback for one label; <<>> when the loop goes on
TryLabel(page, label) ==
    IF ~HasText(page.text, label) THEN <<>>
    ELSE IF MatchAfterLabel(page.text, label) # <<>>
           THEN MatchAfterLabel(page.text, label)
    ELSE IF Truthy(page.sibling) /\ Truthy(Trim(page.sibling))
           THEN <<Trim(page.sibling)>>
    ELSE IF MatchAfterLabel(page.parentText, label) # <<>>
           THEN MatchAfterLabel(page.parentText, label)
    ELSE IF Truthy(page.following) /\ Truthy(Trim(page.following))
           THEN <<Trim(page.following)>>
    ELSE <<>>

ExtractLabeledValue(page, labels) ==
    LET fromTable == IF page.tableThrows THEN <<>>
                                         ELSE TableValue(page.cells, labels)
        from[n \in 1..(Len(labels) + 1)] ==
            IF n > Len(labels) THEN Null
            ELSE IF TryLabel(page, labels[n]) # <<>>
                   THEN TryLabel(page, labels[n])[1]
                   ELSE from[n + 1]
    IN  IF fromTable # <<>> THEN fromTable[1]
        ELSE IF page.fallbackThrows THEN Null
        ELSE from[1]

InitLabels ==
    /\ ScraperIdle /\ clock = 0 /\ IntakeIdle /\ DedupIdle /\ TransformIdle
    /\ VisitIdle /\ ReadIdle /\ SelectorsIdle /\ TabsIdle /\ OppIdle
    /\ StatusIdle /\ UtilIdle
    /\ lLabels \in LabelLists
    /\ lPage \in Pages
    /\ lResult = Null
    /\ lDone = FALSE

ApplyExtractLabeledValue ==
    /\ ~lDone
    /\ lResult' = ExtractLabeledValue(lPage, lLabels)
    /\ lDone' = TRUE
    /\ UNCHANGED <<lLabels, lPage>>
    /\ UNCHANGED <<pipelineVars, visitVars, readVars, selectorVars, tabVars,
                   oppVars, statusVars, utilVars>>

NextLabels == ApplyExtractLabeledValue

SpecLabels == InitLabels /\ [][NextLabels]_vars


(***************************************************************************)
(* TabDataExtractor.extract on its own (TabDataExtractor.ts lines 40-71).  *)
(* A tab is given by                                                       *)
(*   name     what getTabName returns (Null: no text, data-tab,            *)
(*            aria-label or id);                                           *)
(*   click    what clickTabLocator meets: the tab is already "active",     *)
(*            tab.click() succeeds ("ok") or throws ("fails");             *)
(*   content  what extractTabContent returns: a trimmed non-empty text,    *)
(*            or Null when no content selector gives text.                 *)
(***************************************************************************)
TabNames == {"details", "documents"}
TabContents == {Null, "Bid documents"}
Tabs == {tab \in [name : TabNames \cup {Null}, click : {"active", "ok", "fails"},
                  content : TabContents] :
            /\ tab.name = Null => tab.click = "ok" /\ tab.content = Null
            /\ tab.click = "fails" => tab.content = Null}
TabLists == UNION {[1..n -> Tabs] : n \in 0..MaxTabs}

InitTabs ==
    /\ ScraperIdle /\ clock = 0 /\ IntakeIdle /\ DedupIdle /\ TransformIdle
    /\ VisitIdle /\ ReadIdle /\ SelectorsIdle /\ LabelsIdle /\ OppIdle
    /\ StatusIdle /\ UtilIdle
    /\ tabPc = "start"
    /\ tabs \in TabLists
    /\ tabIdx = 0
    /\ tabData = EmptyTabData

\* lines 45-50: page.waitForLoadState('networkidle'), which throws on a
\* timeout, and findTabs
FindTabs ==
    /\ tabPc = "start"
    /\ \E loadOk \in BOOLEAN : tabPc' = IF loadOk THEN "tabs" ELSE "threw"
    /\ UNCHANGED <<tabs, tabIdx, tabData>>
    /\ UNCHANGED <<pipelineVars, visitVars, readVars, selectorVars, labelVars,
                   oppVars, statusVars, utilVars>>

\* clickTabLocator (lines 155-173): false when the click throws
ClickTabLocator(tab) == tab.click # "fails"

\* lines 53-68: one iteration of the loop over the tabs
ExtractTab ==
    /\ tabPc = "tabs"
    /\ tabIdx < Len(tabs)
    /\ LET tab == tabs[tabIdx + 1] IN
       IF tab.name = Null \/ ~ClickTabLocator(tab)
         THEN UNCHANGED <<tabPc, tabData>>
         ELSE \E loadOk \in BOOLEAN :
                 IF loadOk
                   THEN /\ tabData' = [n \in DOMAIN tabData \cup {tab.name} |->
                                         IF n = tab.name THEN tab.content
                                                         ELSE tabData[n]]
                        /\ tabPc' = tabPc
                   ELSE /\ tabData' = tabData
                        /\ tabPc' = "threw"
    /\ tabIdx' = tabIdx + 1
    /\ UNCHANGED tabs
    /\ UNCHANGED <<pipelineVars, visitVars, readVars, selectorVars, labelVars,
                   oppVars, statusVars, utilVars>>

\* line 70: return tabData
ReturnTabData ==
    /\ tabPc = "tabs"
    /\ tabIdx = Len(tabs)
    /\ tabPc' = "returned"
    /\ UNCHANGED <<tabs, tabIdx, tabData>>
    /\ UNCHANGED <<pipelineVars, visitVars, readVars, selectorVars, labelVars,
                   oppVars, statusVars, utilVars>>

NextTabs ==
    \/ FindTabs
    \/ ExtractTab
    \/ ReturnTabData

SpecTabs == InitTabs /\ [][NextTabs]_vars


(***************************************************************************)
(* OpportunityExtractor.extract on its own (OpportunityExtractor.ts lines  *)
(* 432-746), for the fields title, description, openDate and status.  For  *)
(* each field the page is given by what extractLabeledValue and            *)
(* extractFromMultipleSelectors return for the field's labels and          *)
(* selectors: any value these two functions can return.                    *)
(***************************************************************************)
Fields == {"title", "description", "openDate", "status"}

LabeledResults == {ExtractLabeledValue(page, <<"Status">>) : page \in Pages}
SelectedResults == {ExtractFromMultipleSelectors(sels) : sels \in SelectorLists}

\* let v = await extractLabeledValue(..); if (!v) { v = await
\* extractFromMultipleSelectors(..) }  (openDate, lines 525-534)
ResolveField(labeled, selected) ==
    IF Truthy(labeled) THEN labeled ELSE selected

\* ResolveWithDefault without the `|| default`
ResolveWithoutDefault(labeled, selected, default) ==
    IF Truthy(labeled) THEN labeled ELSE selected

\* let v = await extractLabeledValue(..); if (!v) { v = await
\* extractFromMultipleSelectors(..) || default }  (title, description and
\* status, lines 496-506, 509-520, 551-560)
ResolveWithDefault(labeled, selected, default) ==
    IF Truthy(labeled) THEN labeled
    ELSE IF Truthy(selected) THEN selected ELSE default

\* lines 562-564: if (!status || status === '') status = 'Unknown'
StatusOrUnknown(status) == IF Truthy(status) THEN status ELSE "Unknown"

\* page.url()
PageUrl == "https://bids/Details/164192"

InitOpp ==
    /\ ScraperIdle /\ clock = 0 /\ IntakeIdle /\ DedupIdle /\ TransformIdle
    /\ VisitIdle /\ ReadIdle /\ SelectorsIdle /\ LabelsIdle /\ TabsIdle
    /\ StatusIdle /\ UtilIdle
    /\ oPc = "start"
    /\ oFound \in [Fields -> [labeled : LabeledResults, selected : SelectedResults]]
    /\ oFound["openDate"] = [labeled |-> Null, selected |-> Null]
    /\ oRecord = <<>>

\* extract: page.waitForLoadState('networkidle') throws on a timeout;
\* otherwise the record is built and returned
ExtractOpportunity ==
    /\ oPc = "start"
    /\ \E loadOk \in BOOLEAN :
          IF loadOk
            THEN /\ oRecord' =
                      <<[title |-> ResolveWithDefault(oFound["title"].labeled,
                                                      oFound["title"].selected, ""),
                         description |->
                             ResolveWithDefault(oFound["description"].labeled,
                                                oFound["description"].selected, ""),
                         openDate |-> ResolveField(oFound["openDate"].labeled,
                                                   oFound["openDate"].selected),
                         status |-> StatusOrUnknown(
                                      ResolveWithDefault(oFound["status"].labeled,
                                                         oFound["status"].selected,
                                                         "Unknown")),
                         sourceUrl |-> PageUrl]>>
                 /\ oPc' = "returned"
            ELSE /\ oRecord' = oRecord
                 /\ oPc' = "threw"
    /\ UNCHANGED oFound
    /\ UNCHANGED <<pipelineVars, visitVars, readVars, selectorVars, labelVars,
                   tabVars, statusVars, utilVars>>

NextOpp == ExtractOpportunity

SpecOpp == InitOpp /\ [][NextOpp]_vars


(***************************************************************************)
(* normalizeStatus on its own (part_007 lines 117-140), applied to the     *)
(* status values of up to MaxStatuses opportunities.                       *)
(***************************************************************************)
Statuses == {Null, "", "Open", "ACTIVE", "posted", " Available ", "Closed",
             "expired", "Ended", "awarded", "Completed", "cancelled",
             "Canceled", "Pending Review", "draft", "constructor"}
StatusLists == UNION {[1..n -> Statuses] : n \in 0..MaxStatuses}

\* status.toLowerCase().trim() on the status values of the model
StatusLowerTrim(status) ==
    CASE status = "Open" -> "open"
      [] status = "ACTIVE" -> "active"
      [] status = " Available " -> "available"
      [] status = "Closed" -> "closed"
      [] status = "Ended" -> "ended"
      [] status = "Completed" -> "completed"
      [] status = "Canceled" -> "canceled"
      [] status = "Pending Review" -> "pending review"
      [] OTHER -> status

\* const statusMap: Record<string, string>
StatusMap ==
    [key \in {"open", "active", "posted", "available", "closed", "expired",
              "ended", "awarded", "completed", "cancelled", "canceled"} |->
        CASE key \in {"open", "active", "posted", "available"} -> "open"
          [] key \in {"closed", "expired", "ended"} -> "closed"
          [] key \in {"awarded", "completed"} -> "awarded"
          [] key \in {"cancelled", "canceled"} -> "cancelled"]

\* statusMap is an object literal: a key of Object.prototype is found on it
\* too, and its value (a function) is truthy
ObjectFunction == "<function Object>"

NormalizeStatus(status) ==
    IF ~Truthy(status) THEN "unknown"
    ELSE LET normalized == StatusLowerTrim(status) IN
         IF normalized \in DOMAIN StatusMap THEN StatusMap[normalized]
         ELSE IF normalized = "constructor" THEN ObjectFunction
         ELSE normalized

InitStatus ==
    /\ ScraperIdle /\ clock = 0 /\ IntakeIdle /\ DedupIdle /\ TransformIdle
    /\ VisitIdle /\ ReadIdle /\ SelectorsIdle /\ LabelsIdle /\ TabsIdle
    /\ OppIdle /\ UtilIdle
    /\ nsInput \in StatusLists
    /\ nsOutput = <<>>

ApplyNormalizeStatus ==
    /\ Len(nsOutput) < Len(nsInput)
    /\ nsOutput' = Append(nsOutput, NormalizeStatus(nsInput[Len(nsOutput) + 1]))
    /\ UNCHANGED nsInput
    /\ UNCHANGED <<pipelineVars, visitVars, readVars, selectorVars, labelVars,
                   tabVars, oppVars, utilVars>>

NextStatus == ApplyNormalizeStatus

SpecStatus == InitStatus /\ [][NextStatus]_vars


(***************************************************************************)
(* parseArgs and getDateRange (utils/cli.ts).  A --date-range value is the *)
(* list of its comma-separated parts; a part either has the form           *)
(* yyyy-MM-dd or not, and a part of that form names a calendar day or      *)
(* names none (2024-02-30: day 0 here).  The arguments of the model are    *)
(* --today, --date-range=<value> and a bare word; the model leaves out the *)
(* form with the value in an argument of its own.                          *)
(***************************************************************************)
CliDays == 1..MaxCliDay
DateParts == {[form |-> TRUE, day |-> d] : d \in 0..MaxCliDay}
                 \cup {[form |-> FALSE, day |-> 0]}
RangeValues == UNION {[1..n -> DateParts] : n \in 1..MaxParts}
CliArgs == {[flag |-> "today", value |-> <<>>]}
               \cup {[flag |-> "date-range", value |-> v] : v \in RangeValues}
               \cup {[flag |-> "word", value |-> <<p>>] : p \in DateParts}
ArgLists == UNION {[1..n -> CliArgs] : n \in 0..MaxArgs}

\* /^\d{4}-\d{2}-\d{2}$/.test(nextArg)
LooksLikeDate(arg) == arg.flag = "word" /\ arg.value[1].form

\* /^\d{4}-\d{2}-\d{2},\d{4}-\d{2}-\d{2}$/.test(rawRange)
DateRangeRegex(rawRange) ==
    Len(rawRange) = 2 /\ rawRange[1].form /\ rawRange[2].form

\* the value of the --date-range= argument at position n: the next argument
\* is joined to it when it looks like a date
RawRange(args, n) ==
    IF n + 1 <= Len(args) /\ LooksLikeDate(args[n + 1])
    THEN args[n].value \o args[n + 1].value
    ELSE args[n].value

\* the loop of parseArgs from argument n on
RECURSIVE ParseArgsFrom(_, _, _, _)
ParseArgsFrom(args, n, isToday, dateRange) ==
    IF n > Len(args) THEN [isToday |-> isToday, dateRange |-> dateRange]
    ELSE IF args[n].flag = "today"
         THEN ParseArgsFrom(args, n + 1, TRUE, <<>>)
    ELSE IF args[n].flag = "date-range"
         THEN LET rawRange == RawRange(args, n)
                  step == IF Len(rawRange) > Len(args[n].value) THEN 2 ELSE 1
              IN  ParseArgsFrom(args, n + step, isToday,
                                IF DateRangeRegex(rawRange) THEN <<rawRange>>
                                ELSE <<>>)
    ELSE ParseArgsFrom(args, n + 1, isToday, dateRange)

ParseArgs(args, envDateRange, envIsToday) ==
    ParseArgsFrom(args, 1, envIsToday, envDateRange)

\* parseDate: null (0 here) unless the string has the form and names a day
ParseDate(part) == IF part.form THEN part.day ELSE 0

\* getToday / getYesterday, in days
GetToday(now) == now
GetYesterday(now) == now - 1

Window(from, to) == <<[outcome |-> "returned", from |-> from, to |-> to]>>

GetDateRange(parsed, now) ==
    IF parsed.isToday THEN Window(GetToday(now), GetToday(now))
    ELSE IF parsed.dateRange # <<>>
    THEN LET parts == parsed.dateRange[1] IN
         IF Len(parts) # 2
         THEN Window(GetYesterday(now), GetYesterday(now))
         ELSE LET from == ParseDate(parts[1])
                  to == ParseDate(parts[2])
              IN  IF from = 0 \/ to = 0
                  THEN Window(GetYesterday(now), GetYesterday(now))
                  ELSE IF from > to
                  THEN Window(GetYesterday(now), GetYesterday(now))
                  ELSE Window(from, to)
    ELSE Window(GetYesterday(now), GetYesterday(now))

InitCli ==
    /\ ScraperIdle /\ clock = 0 /\ IntakeIdle /\ DedupIdle /\ TransformIdle
    /\ VisitIdle /\ ReadIdle /\ SelectorsIdle /\ LabelsIdle /\ TabsIdle
    /\ OppIdle /\ StatusIdle /\ RetryIdle /\ HeaderIdle
    /\ cliPc = "start"
    /\ argv \in ArgLists
    /\ envRange \in {<<>>} \cup {<<v>> : v \in RangeValues}
    /\ envToday \in BOOLEAN
    /\ cliToday \in {MaxCliDay, MaxCliDay + 1}
    /\ cliParsed = <<>>
    /\ cliOut = <<>>

\* const { isToday, dateRange } = parseArgs()
CallParseArgs ==
    /\ cliPc = "start"
    /\ cliParsed' = <<ParseArgs(argv, envRange, envToday)>>
    /\ cliPc' = "parsed"
    /\ UNCHANGED <<argv, envRange, envToday, cliToday, cliOut>>
    /\ UNCHANGED <<pipelineVars, visitVars, readVars, selectorVars, labelVars,
                   tabVars, oppVars, statusVars, retryVars, headerVars>>

\* the rest of getDateRange
ReturnDateRange ==
    /\ cliPc = "parsed"
    /\ cliOut' = GetDateRange(cliParsed[1], cliToday)
    /\ cliPc' = "done"
    /\ UNCHANGED <<argv, envRange, envToday, cliToday, cliParsed>>
    /\ UNCHANGED <<pipelineVars, visitVars, readVars, selectorVars, labelVars,
                   tabVars, oppVars, statusVars, retryVars, headerVars>>

NextCli == CallParseArgs \/ ReturnDateRange

SpecCli == InitCli /\ [][NextCli]_vars


(***************************************************************************)
(* retry (utils/storage.ts).  Every call of fn either resolves or rejects, *)
(* with an Error or with a value that is no Error; the value or error of   *)
(* the n-th call is named n.                                               *)
(***************************************************************************)
FnOutcomes == {"resolves", "rejectsError", "rejectsValue"}

\* error instanceof Error ? error : new Error(String(error))
AsError(outcome, n) == [of |-> n, wrapped |-> outcome = "rejectsValue"]

\* new Error('Retry failed: unknown error')
UnknownError == [of |-> 0, wrapped |-> FALSE]

InitRetry ==
    /\ ScraperIdle /\ clock = 0 /\ IntakeIdle /\ DedupIdle /\ TransformIdle
    /\ VisitIdle /\ ReadIdle /\ SelectorsIdle /\ LabelsIdle /\ TabsIdle
    /\ OppIdle /\ StatusIdle /\ CliIdle /\ HeaderIdle
    /\ retPc = "loop"
    /\ maxRetries \in -1..MaxRetries
    /\ initialDelay \in 0..MaxInitialDelay
    /\ attempt = 0
    /\ delay = initialDelay
    /\ lastError = <<>>
    /\ fnCalls = <<>>
    /\ waits = <<>>
    /\ retResult = <<>>

\* one turn of the loop up to the end of its try/catch: return await fn(),
\* and in the catch lastError = ..., then either the wait or the next turn
CallFnKeepsFirstError ==
    /\ retPc = "loop"
    /\ attempt <= maxRetries
    /\ \E outcome \in FnOutcomes :
        /\ fnCalls' = Append(fnCalls, outcome)
        /\ IF outcome = "resolves"
           THEN /\ retResult' = <<[settled |-> "resolved",
                                   of |-> Len(fnCalls) + 1]>>
                /\ retPc' = "done"
                /\ UNCHANGED <<lastError, attempt>>
           ELSE /\ lastError' = IF lastError = <<>>
                                THEN <<AsError(outcome, Len(fnCalls) + 1)>>
                                ELSE lastError
                /\ IF attempt < maxRetries
                   THEN retPc' = "wait" /\ UNCHANGED attempt
                   ELSE retPc' = "loop" /\ attempt' = attempt + 1
                /\ UNCHANGED retResult
    /\ UNCHANGED <<maxRetries, initialDelay, delay, waits>>
    /\ UNCHANGED <<pipelineVars, visitVars, readVars, selectorVars, labelVars,
                   tabVars, oppVars, statusVars, cliVars, headerVars>>

CallFn ==
    /\ retPc = "loop"
    /\ attempt <= maxRetries
    /\ \E outcome \in FnOutcomes :
        /\ fnCalls' = Append(fnCalls, outcome)
        /\ IF outcome = "resolves"
           THEN /\ retResult' = <<[settled |-> "resolved",
                                   of |-> Len(fnCalls) + 1]>>
                /\ retPc' = "done"
                /\ UNCHANGED <<lastError, attempt>>
           ELSE /\ lastError' = <<AsError(outcome, Len(fnCalls) + 1)>>
                /\ IF attempt < maxRetries
                   THEN retPc' = "wait" /\ UNCHANGED attempt
                   ELSE retPc' = "loop" /\ attempt' = attempt + 1
                /\ UNCHANGED retResult
    /\ UNCHANGED <<maxRetries, initialDelay, delay, waits>>
    /\ UNCHANGED <<pipelineVars, visitVars, readVars, selectorVars, labelVars,
                   tabVars, oppVars, statusVars, cliVars, headerVars>>

\* await new Promise(resolve => setTimeout(resolve, delay)); delay *= 2
WaitBeforeRetryLinear ==
    /\ retPc = "wait"
    /\ waits' = Append(waits, delay)
    /\ delay' = delay + initialDelay
    /\ attempt' = attempt + 1
    /\ retPc' = "loop"
    /\ UNCHANGED <<maxRetries, initialDelay, lastError, fnCalls, retResult>>
    /\ UNCHANGED <<pipelineVars, visitVars, readVars, selectorVars, labelVars,
                   tabVars, oppVars, statusVars, cliVars, headerVars>>

WaitBeforeRetry ==
    /\ retPc = "wait"
    /\ waits' = Append(waits, delay)
    /\ delay' = delay * 2
    /\ attempt' = attempt + 1
    /\ retPc' = "loop"
    /\ UNCHANGED <<maxRetries, initialDelay, lastError, fnCalls, retResult>>
    /\ UNCHANGED <<pipelineVars, visitVars, readVars, selectorVars, labelVars,
                   tabVars, oppVars, statusVars, cliVars, headerVars>>

\* throw lastError || new Error('Retry failed: unknown error')
ThrowLastError ==
    /\ retPc = "loop"
    /\ attempt > maxRetries
    /\ retResult' = <<[settled |-> "rejected",
                       error |-> IF lastError # <<>> THEN lastError[1]
                                 ELSE UnknownError]>>
    /\ retPc' = "done"
    /\ UNCHANGED <<maxRetries, initialDelay, attempt, delay, lastError,
                   fnCalls, waits>>
    /\ UNCHANGED <<pipelineVars, visitVars, readVars, selectorVars, labelVars,
                   tabVars, oppVars, statusVars, cliVars, headerVars>>

NextRetry == CallFn \/ WaitBeforeRetry \/ ThrowLastError

SpecRetry == InitRetry /\ [][NextRetry]_vars


(***************************************************************************)
(* A header cell of a table and a candidate label: extractTable makes the  *)
(* key of the header (OpportunityExtractor.ts lines 922-936), and          *)
(* extractLabeledValue tests the key against the label (lines 834-846).    *)
(***************************************************************************)
HeaderWords == {"Status", "Open", "Date"}
\* texts of up to MaxWords words, with one or two spaces between two words
RECURSIVE TextsOf(_)
TextsOf(n) ==
    IF n = 1 THEN {<<w>> : w \in HeaderWords}
    ELSE {t \o gap \o <<w>> : t \in TextsOf(n - 1),
                            gap \in {<<Space>>, <<Space, Space>>},
                            w \in HeaderWords}
HeaderTexts == UNION {TextsOf(n) : n \in 1..MaxWords}
\* a label has single spaces
LabelTexts == {t \in HeaderTexts :
                  \A n \in 1..(Len(t) - 1) : ~(t[n] = Space /\ t[n + 1] = Space)}

InitHeaders ==
    /\ ScraperIdle /\ clock = 0 /\ IntakeIdle /\ DedupIdle /\ TransformIdle
    /\ VisitIdle /\ ReadIdle /\ SelectorsIdle /\ LabelsIdle /\ TabsIdle
    /\ OppIdle /\ StatusIdle /\ CliIdle /\ RetryIdle
    /\ hPc = "header"
    /\ hHeader \in HeaderTexts
    /\ hLabel \in LabelTexts
    /\ hKey = <<>>
    /\ hMatch = FALSE

\* extractTable: headers.push(headerText.trim().toLowerCase().replace(...))
InferHeader ==
    /\ hPc = "header"
    /\ hKey' = NormalizeHeader(hHeader)
    /\ hPc' = "match"
    /\ UNCHANGED <<hHeader, hLabel, hMatch>>
    /\ UNCHANGED <<pipelineVars, visitVars, readVars, selectorVars, labelVars,
                   tabVars, oppVars, statusVars, cliVars, retryVars>>

\* extractLabeledValue: the test of the key against the label
MatchLabel ==
    /\ hPc = "match"
    /\ hMatch' = KeyMatchesLabel(hKey, hLabel)
    /\ hPc' = "done"
    /\ UNCHANGED <<hHeader, hLabel, hKey>>
    /\ UNCHANGED <<pipelineVars, visitVars, readVars, selectorVars, labelVars,
                   tabVars, oppVars, statusVars, cliVars, retryVars>>

NextHeaders == InferHeader \/ MatchLabel

SpecHeaders == InitHeaders /\ [][NextHeaders]_vars

(***************************************************************************)
(* Properties of the Collection Controller.                                *)
(***************************************************************************)
Parseable == {"us", "text"}

\* this step is an iteration of the row loop (it examined the row cur')
ScansARow == pc = "scan" /\ i' = i + 1

\* C1: when fetchListings examines an item whose date lies strictly before
\* the window start (its day is before the day of dateRange.from), it sets
\* the stop flag, admits neither that item nor a later item of the page
\* (the scan ends, and every admitted listing precedes the item), and run()
\* calls fetchListings no more once the flag is set.
C1_StopOnItemBeforeWindow ==
    /\ [][(ScansARow /\ cur'.fmt \in Parseable /\ cur'.day < dateFrom)
            => /\ shouldStopPagination'
               /\ listings' = listings
               /\ pc' = "fetched"]_vars
    /\ [][shouldStopPagination => fetchCount' = fetchCount]_vars
    /\ [](shouldStopPagination /\ pc = "fetched"
            => \A j \in 1..Len(listings) : listings[j].index < i)

\* C2: every listing fetchListings returns has a parseable date whose day d
\* satisfies dateFrom <= d <= dateTo.
C2_AdmittedWithinWindow ==
    \A j \in 1..Len(listings) :
        /\ listings[j].fmt \in Parseable
        /\ dateFrom <= listings[j].day
        /\ listings[j].day <= dateTo

\* C3: an iteration that examines an item with a missing or unparseable date
\* admits nothing, leaves the stop flag as it was, raises no error and, when
\* rows remain on the page, stays in the row loop.
C3_UndatedItemSkipped ==
    [][(ScansARow /\ cur'.fmt \notin Parseable)
        => /\ listings' = listings
           /\ shouldStopPagination' = shouldStopPagination
           /\ pc' \in {"scan", "fetched"}
           /\ (i' < nRows => pc' = "scan")]_vars

\* an undated item was examined, with a row of the page left to examine
C3_Witness == pc = "scan" /\ i >= 1 /\ i < nRows /\ cur.fmt \in {"bad", "none"}

\* C4: after a page for which the source returned fewer rows than the page
\* size, run() calls fetchListings no more.
C4_ShortPageEndsPagination ==
    [][(fetchCount >= 1 /\ served < PageSize) => fetchCount' = fetchCount]_vars

\* the run ended after a first page that was short but neither empty nor
\* past the window
C4_Witness ==
    /\ pc = "done"
    /\ fetchCount = 1
    /\ served >= 1 /\ served < PageSize
    /\ ~shouldStopPagination
    /\ currentPage <= MaxPages

\* C10: the batch files written so far carry the numbers 1, 2, 3, ... in
\* the order of writing (strictly increasing from 1, none used twice).
C10_BatchNumbersMonotonic ==
    \A j \in 1..Len(written) : written[j] = j

\* two batch files were written, the second after a page of its own
C10_Witness == Len(written) >= 2 /\ currentPage >= 2

(***************************************************************************)
(* Properties of the intake run.                                           *)
(***************************************************************************)
\* the aggregate has been assembled
Assembled == ipc \in {"assembled", "validated", "saved", "rejected"}

Ids(records) == {records[j].id : j \in 1..Len(records)}

\* C5: an intake output file is written only for an aggregate that passed
\* INTAKE_OUTPUT, processIntake gets past the validation only with such an
\* aggregate, and a run whose validation failed has written no file.
C5_WriteOnlyAfterValidation ==
    /\ \A f \in 1..Len(intakeFiles) : IntakeOutputValid(intakeFiles[f])
    /\ intakeFiles # <<>> => ipc = "saved"
    /\ ipc \in {"validated", "saved"} => IntakeOutputValid(output)
    /\ ipc = "rejected" => intakeFiles = <<>>

\* the validation rejected an aggregate that holds a contract
C5_Witness == ipc = "rejected" /\ Len(output.contracts) >= 1 /\ IsString(source)

\* C6: in the assembled aggregate every non-null agencyId of a contract is
\* the id of an agency of the aggregate and every contact id of a contract
\* is the id of a person of the aggregate.
C6_ReferentialClosure ==
    Assembled =>
        \A j \in 1..Len(output.contracts) :
            LET c == output.contracts[j] IN
            /\ c.agencyId # Null => c.agencyId \in Ids(output.agencies)
            /\ \A h \in 1..Len(c.contactIds) :
                  c.contactIds[h] \in Ids(output.people)

\* an aggregate was saved in which the deduplication removed an agency and
\* a person that contracts refer to
C6_Witness ==
    /\ ipc = "saved"
    /\ Len(output.agencies) < Len(agencies)
    /\ Len(output.people) < Len(people)
    /\ \A j \in 1..Len(output.contracts) :
          /\ output.contracts[j].agencyId # Null
          /\ output.contracts[j].contactIds # <<>>

\* C7: in the assembled aggregate no two entries of one collection have
\* the same id.
C7_UniqueIds ==
    Assembled =>
        /\ Cardinality(Ids(output.contracts)) = Len(output.contracts)
        /\ Cardinality(Ids(output.agencies)) = Len(output.agencies)
        /\ Cardinality(Ids(output.documents)) = Len(output.documents)
        /\ Cardinality(Ids(output.people)) = Len(output.people)

\* C29: the assembled aggregate holds a single person for buyer e-mail
\* addresses that are equal up to letter case: no two of its people have
\* the same normalized e-mail address.
C29_OnePersonPerEmail ==
    Assembled =>
        \A m, n \in 1..Len(output.people) :
            (/\ output.people[m].email # Null
             /\ output.people[m].email = output.people[n].email)
            => m = n

(***************************************************************************)
(* Properties of deduplicateBy and of the transformers.                    *)
(***************************************************************************)
\* index of the first item of the input that carries the key
FirstIndex(key) ==
    CHOOSE n \in 1..Len(dedupInput) :
        /\ dedupInput[n].id = key
        /\ \A m \in 1..(n - 1) : dedupInput[m].id # key

\* C8: the result of deduplicateBy holds exactly one item for each key of
\* the input, that item is the first item of the input with the key, and
\* the items of the result are in the order of the input.
C8_KeepsFirstInOrder ==
    dedupDone =>
        /\ Ids(dedupOutput) = Ids(dedupInput)
        /\ Cardinality(Ids(dedupOutput)) = Len(dedupOutput)
        /\ \A a \in 1..Len(dedupOutput) :
              dedupOutput[a] = dedupInput[FirstIndex(dedupOutput[a].id)]
        /\ \A a, b \in 1..Len(dedupOutput) :
              a < b => FirstIndex(dedupOutput[a].id) < FirstIndex(dedupOutput[b].id)

\* a key occurs first and last with different attributes, around another key
C8_Witness ==
    /\ dedupDone
    /\ Len(dedupInput) = 3 /\ Len(dedupOutput) = 2
    /\ dedupInput[1].id = dedupInput[3].id
    /\ dedupInput[1].name # dedupInput[3].name

\* C9: all transformations of one opportunity with one source name give the
\* same contract id, the same agency id and the same person id.
C9_IdsDeterministic ==
    \A a, b \in 1..Len(tRuns) :
        /\ tRuns[a].contract.id = tRuns[b].contract.id
        /\ Ids(tRuns[a].agency) = Ids(tRuns[b].agency)
        /\ Ids(tRuns[a].person) = Ids(tRuns[b].person)

\* an opportunity with an agency and a contact was transformed at two times
C9_Witness ==
    /\ Len(tRuns) >= 2
    /\ tRuns[1].contract.scrapedAt # tRuns[2].contract.scrapedAt
    /\ tRuns[1].agency # <<>>
    /\ tRuns[1].person # <<>>

(***************************************************************************)
(* Properties of run(): failed visits and politeness delays.               *)
(***************************************************************************)
\* run() logs a listing as failed
VisitFails == pc = "process" /\ Len(failed') = Len(failed) + 1

\* C11: a listing whose visit threw is not in the batch; the throw leaves
\* run() in the processing of the page, at the next listing; the page is
\* left only after every listing was visited; and after a full page with a
\* failed listing run() goes on to the next page.
C11_FailedItemSkipped ==
    /\ [](\A f \in 1..Len(failed), b \in 1..Len(batchItems) :
             batchItems[b].listing # failed[f])
    /\ [](pc = "process" => k = Len(batchItems) + Len(failed))
    /\ [][VisitFails => /\ pc' = "process"
                        /\ k' = k + 1
                        /\ batchItems' = batchItems
                        /\ UNCHANGED <<listings, hasMorePages, currentPage>>]_vars
    /\ [][pc = "process" /\ pc' # "process" => k = Len(listings)]_vars
    /\ [][pc = "endpage" /\ failed # <<>> /\ ~shouldStopPagination
             /\ Len(listings) = PageSize
           => pc' = "loop" /\ currentPage' = currentPage + 1
                /\ hasMorePages' = hasMorePages]_vars

\* a listing was processed into the batch after an earlier one had failed
C11_Witness ==
    /\ Len(failed) >= 1 /\ Len(batchItems) >= 1
    /\ batchItems[Len(batchItems)].listing > failed[1]

\* C20: a detail page is not opened while a detail page was opened since
\* the last delay, and a listing page is not fetched while a listing page
\* was fetched since the last delay.
C20_DelayBetweenVisits ==
    [][/\ (pc = "process" /\ k' = k + 1) => "detail" \notin undelayed
       /\ fetchCount' = fetchCount + 1 => "fetch" \notin undelayed]_vars

(***************************************************************************)
(* Properties of processOpportunity.                                       *)
(***************************************************************************)
\* the download loop handles a document and the download fails
DownloadFails ==
    /\ vpc = "download"
    /\ Len(vAttempts') = Len(vAttempts) + 1
    /\ vAttempts'[Len(vAttempts')].result # "saved"

\* C12: when processOpportunity has returned, a document whose fetch failed
\* with a network error was fetched again afterwards, and a document whose
\* fetch gave an HTTP error status was not fetched again.
C12_NetworkErrorRetried ==
    vpc = "returned" =>
        \A a \in 1..Len(vAttempts) :
            /\ vAttempts[a].result = "network" =>
                  \E b \in (a + 1)..Len(vAttempts) : vAttempts[b].doc = vAttempts[a].doc
            /\ vAttempts[a].result = "http" =>
                  \A b \in (a + 1)..Len(vAttempts) : vAttempts[b].doc # vAttempts[a].doc

\* C13: a failed download leaves processOpportunity in the download loop,
\* at the next document, with the document list as it was; the loop is left
\* only after every document was handled; and the item returned holds every
\* extracted document.
C13_DownloadFailureKeepsItem ==
    /\ [][DownloadFails => /\ vpc' = "download"
                           /\ vNext' = vNext + 1
                           /\ vDocuments' = vDocuments]_vars
    /\ [][vpc = "download" /\ vpc' # "download" => vNext = Len(vDocuments)]_vars
    /\ [](vpc = "returned" =>
            /\ vItem = <<[documents |-> vDocuments]>>
            /\ \A d \in 1..Len(vDocuments) :
                  \E a \in 1..Len(vAttempts) : vAttempts[a].doc = d)

\* an item was returned whose first download failed and whose second was
\* saved
C13_Witness ==
    /\ vpc = "returned"
    /\ Len(vDocuments) >= 2
    /\ vAttempts[1].result # "saved"
    /\ vAttempts[2].result = "saved"
    /\ Len(vItem[1].documents) = Len(vDocuments)

\* C28: at most one detail page is open at any time, and no detail page is
\* open when the visit of a listing begins or has ended, whether it ended
\* by returning the item or by throwing.
C28_OneDetailPageAtATime ==
    /\ vOpen <= 1
    /\ vpc \in {"start", "returned", "threw"} => vOpen = 0

\* after a visit that threw, the page of the next listing is open
C28_Witness ==
    /\ vOutcomes = <<"threw">>
    /\ vpc = "extract"
    /\ vOpen = 1

(***************************************************************************)
(* Properties of readBatchFiles.                                           *)
(***************************************************************************)
\* C14: when a batch file could not be read or parsed, readBatchFiles does
\* not return and processIntake does not go on to transform the batches of
\* the other files.
C14_UnreadableBatchIsFatal ==
    rWarned # <<>> => rpc # "returned" /\ ipc # "transform"

\* C24: the batches readBatchFiles returns are in ascending order of batch
\* number, whatever the order of the directory listing.
C24_BatchesInBatchOrder ==
    rpc = "returned"
    => \A m, n \in 1..Len(rBatches) : m < n => rBatches[m] < rBatches[n]

(***************************************************************************)
(* Properties of the field resolver.                                       *)
(***************************************************************************)
\* what a selector yields: the trimmed text of its element, or for an href
\* selector without text the address of a mailto: or tel: link; Null when
\* it is missing, throws, or has nothing of these
Yield(sel) ==
    IF sel.state # "found" THEN Null
    ELSE IF sel.text \in {"Open"} THEN "Open"
    ELSE IF sel.isHref /\ sel.href = "mailto:jane@x.com?subject=Bid" THEN "jane@x.com"
    ELSE IF sel.isHref /\ sel.href = "tel:555 0100" THEN "5550100"
    ELSE Null

\* C15: the result is never the empty string; it is null exactly when no
\* selector yields a value; otherwise it is what the first selector that
\* yields a value yields.
C15_FirstNonEmptyInOrder ==
    sDone =>
        /\ sResult # ""
        /\ sResult = Null <=> \A n \in 1..Len(sSelectors) : Yield(sSelectors[n]) = Null
        /\ \A n \in 1..Len(sSelectors) :
              (/\ Yield(sSelectors[n]) # Null
               /\ \A m \in 1..(n - 1) : Yield(sSelectors[m]) = Null)
              => sResult = Yield(sSelectors[n])

\* C16: the result of extractLabeledValue is not the empty string and is
\* not the text of one of the labels.
C16_NeitherEmptyNorLabel ==
    lDone =>
        /\ lResult # ""
        /\ \A j \in 1..Len(lLabels) : lResult # lLabels[j]

(***************************************************************************)
(* Properties of TabDataExtractor.extract.                                 *)
(***************************************************************************)
\* the loop handles a tab whose click fails
ClickFails ==
    /\ tabPc = "tabs" /\ tabIdx' = tabIdx + 1
    /\ tabs[tabIdx + 1].name # Null
    /\ tabs[tabIdx + 1].click = "fails"

\* C17: every name in the mapping is the name of a handled tab that was
\* activated, no name is mapped to null, and a tab whose click fails leaves
\* the mapping as it was and the loop at the next tab.
C17_OnlyActivatedNeverNull ==
    /\ [](\A n \in DOMAIN tabData :
             /\ \E j \in 1..tabIdx : tabs[j].name = n /\ tabs[j].click # "fails"
             /\ tabData[n] # Null)
    /\ [][ClickFails => tabData' = tabData /\ tabPc' = "tabs"]_vars

(***************************************************************************)
(* Properties of OpportunityExtractor.extract.                             *)
(***************************************************************************)
\* neither strategy gives a value for the field
Unresolved(field) ==
    /\ oFound[field].labeled \in {Null, ""}
    /\ oFound[field].selected \in {Null, ""}

\* C18: the record returned has a title, a description and a sourceUrl that
\* are not null, and its status is "Unknown" when neither strategy gives a
\* status.
C18_RecordFieldsNonNull ==
    oPc = "returned" =>
        /\ oRecord[1].title # Null
        /\ oRecord[1].description # Null
        /\ oRecord[1].sourceUrl # Null
        /\ oRecord[1].status # Null
        /\ Unresolved("status") => oRecord[1].status = "Unknown"

\* a record was returned for a page on which no strategy finds a title, a
\* description or a status
C18_Witness ==
    /\ oPc = "returned"
    /\ Unresolved("title") /\ Unresolved("description") /\ Unresolved("status")
    /\ oFound["status"].selected = ""
    /\ oRecord[1].title = "" /\ oRecord[1].status = "Unknown"

(***************************************************************************)
(* Properties of normalizeStatus.                                          *)
(***************************************************************************)
\* the status values that are a synonym of the canonical status, in any
\* letter case
SynonymsOf(canonical) ==
    CASE canonical = "open" -> {"Open", "ACTIVE", "posted", " Available "}
      [] canonical = "closed" -> {"Closed", "expired", "Ended"}
      [] canonical = "awarded" -> {"awarded", "Completed"}
      [] canonical = "cancelled" -> {"cancelled", "Canceled"}

Canonical == {"open", "closed", "awarded", "cancelled"}

\* C19: a status that is a synonym of a canonical status, in any letter
\* case, is mapped to that canonical status, and every other status value
\* that is present (neither absent nor empty) is returned as it was given.
C19_SynonymsMappedOthersVerbatim ==
    \A n \in 1..Len(nsOutput) :
        /\ \A c \in Canonical : nsInput[n] \in SynonymsOf(c) => nsOutput[n] = c
        /\ (/\ Truthy(nsInput[n])
            /\ \A c \in Canonical : nsInput[n] \notin SynonymsOf(c))
           => nsOutput[n] = nsInput[n]

(***************************************************************************)
(* Properties of the command line.                                         *)
(***************************************************************************)
\* a --date-range value that is malformed or whose start is after its end
BadRange(value) ==
    \/ ~DateRangeRegex(value)
    \/ ParseDate(value[1]) = 0
    \/ ParseDate(value[2]) = 0
    \/ ParseDate(value[1]) > ParseDate(value[2])

\* C21: when the command line is a single --date-range argument whose value
\* is malformed or has its start after its end (and the environment sets
\* nothing), getDateRange ends by raising an error and returns no window.
C21_BadDateRangeRejected ==
    (/\ cliPc = "done"
     /\ Len(argv) = 1 /\ argv[1].flag = "date-range" /\ BadRange(argv[1].value)
     /\ envRange = <<>> /\ ~envToday)
    => cliOut[1].outcome = "threw"

(***************************************************************************)
(* Properties of retry.                                                    *)
(***************************************************************************)
RECURSIVE Pow2(_)
Pow2(n) == IF n = 0 THEN 1 ELSE 2 * Pow2(n - 1)

\* C22: fn is called at most maxRetries + 1 times; no call follows a call
\* that resolved, and retry then resolves with the result of that call; and
\* when maxRetries + 1 calls have all rejected, retry rejects with the error
\* of the last of them.
C22_BoundedCallsFirstSuccessLastError ==
    /\ Len(fnCalls) <= maxRetries + 1
    /\ \A n \in 1..Len(fnCalls) :
          fnCalls[n] = "resolves"
          => /\ n = Len(fnCalls)
             /\ retResult = <<[settled |-> "resolved", of |-> n]>>
    /\ (/\ retPc = "done"
        /\ maxRetries >= 0
        /\ \A n \in 1..Len(fnCalls) : fnCalls[n] # "resolves")
       => /\ Len(fnCalls) = maxRetries + 1
          /\ retResult[1].settled = "rejected"
          /\ retResult[1].error.of = Len(fnCalls)

\* retry has resolved on a call that followed failed ones
C22_Witness ==
    /\ retPc = "done"
    /\ Len(fnCalls) = 3
    /\ retResult[1].settled = "resolved"

\* C23: the k-th wait lasts initialDelay * 2^(k-1); every call after the
\* first is preceded by a wait of its own; and no wait follows the last
\* failed call.
C23_ExponentialBackoff ==
    /\ \A n \in 1..Len(waits) : waits[n] = initialDelay * Pow2(n - 1)
    /\ retPc = "loop" /\ attempt <= maxRetries => Len(waits) = Len(fnCalls)
    /\ retPc = "done" /\ maxRetries >= 0 => Len(waits) = Len(fnCalls) - 1

\* retry has rejected after three retries with a positive initial delay
C23_Witness ==
    /\ retPc = "done"
    /\ retResult[1].settled = "rejected"
    /\ initialDelay > 0
    /\ Len(waits) = 3

(***************************************************************************)
(* Properties of run(): pagination.                                        *)
(***************************************************************************)
\* C25: when the iteration for a page that admitted no listing and did not
\* set the stop flag ends, the pagination is not ended: hasMorePages stays
\* true, so that the next page is fetched if maxPages allows one.
C25_EmptyPageContinues ==
    [][(/\ pc = "endpage"
        /\ Len(listings) = 0
        /\ ~shouldStopPagination)
       => hasMorePages']_vars

\* C26: on a source in descending date order, run() does not end while the
\* source can still hold an item of the window on one of the first MaxPages
\* pages: when it ends after a full page of items, without having met an
\* item before the window (the last dated item lies on or after the window
\* start, the stop flag is not set), it has fetched MaxPages pages.
C26_InWindowItemsReached ==
    (/\ pc = "done"
     /\ nRows = PageSize
     /\ lastDay >= dateFrom
     /\ ~shouldStopPagination)
    => currentPage > MaxPages

\* C30: run() fetches at most MaxPages listing pages, and it ends, by
\* returning or by throwing.
C30_RunTerminates ==
    /\ [](fetchCount <= MaxPages)
    /\ <>(pc \in {"done", "failed"})

\* run() has ended after MaxPages full pages, none of which set the stop
\* flag
C30_Witness ==
    /\ pc = "done"
    /\ fetchCount = MaxPages
    /\ hasMorePages
    /\ ~shouldStopPagination
    /\ Len(listings) = PageSize

(***************************************************************************)
(* Properties of label matching.                                           *)
(***************************************************************************)
\* C27: a header cell and a candidate label with the same text match, the
\* label having one word or several.
C27_SameTextMatches ==
    (hPc = "done" /\ hHeader = hLabel) => hMatch

=============================================================================
